---- MODULE Spec2Model ----
(***************************************************************************)
(* Model of the gwyfile codec (src/gwyfile/objects.py): the decoder        *)
(* GwyObject.frombuffer / component_from_buffer, the encoder               *)
(* GwyObject.serialize / serialize_component / guess_typecode, the type    *)
(* registry _gwyddion_types with the constructors it calls, and the file   *)
(* entry points fromfile / tofile.                                         *)
(*                                                                         *)
(* Conventions.  A bytes object is a sequence of integers 0..255.  A str   *)
(* is a sequence of Unicode code points.  Positions are 0-based as in the  *)
(* Python source; Slice and Find implement Python's slicing and            *)
(* bytes.find, negative indices included.  A Python int is kept in         *)
(* sign-magnitude form (little-endian magnitude bytes, no trailing zero),  *)
(* so that 64-bit and larger values need no machine arithmetic.  A float   *)
(* is kept as its 8 IEEE-754 bytes, little-endian.                         *)
(***************************************************************************)
EXTENDS Integers, Sequences, FiniteSets, TLC

VARIABLES
    phase,      \* position of the calling program: "build", "decoded", ...
    cur,        \* encoding under construction: the components of one object
    done,       \* the finished object encoding (with what it encodes), or NoObj
    nodes,      \* number of components written so far, over the whole tree
    fault,      \* how the input handed to the decoder is malformed ("none" if it is not)
    buf,        \* the buffer handed to the decoder or encoder entry point
    res,        \* outcome of the last decoder call
    ser,        \* outcome of the last encoder call
    res2,       \* outcome of decoding the encoder's output again
    file,       \* content of the file on disk
    called,     \* TRUE when the last fromfile call reached GwyObject.frombuffer
    calls       \* the guess_typecode calls made so far: [arg, out], oldest first

vars == <<phase, cur, done, nodes, fault, buf, res, ser, res2, file, called, calls>>

----------------------------------------------------------------------------
(* Bounds of the model *)

\* components in one encoded tree (specification Spec)
MaxNodes == 2
\* components in one encoded tree when the input is then damaged (SpecMal)
MaxNodesMal == 1
\* nesting depth of objects
MaxDepth == 2
\* elements of an object list
MaxList == 2
\* iterations of the string-array loop that the model follows
MaxIter == 6
\* guess_typecode calls in one run (SpecGuess)
MaxCalls == 3
MaxArray == 2
MaxMut == 2
MaxFieldOps == 2
MaxRes == 2
MaxUnitOps == 3

----------------------------------------------------------------------------
(* Python primitives *)

Min(a, b) == IF a < b THEN a ELSE b
Max(a, b) == IF a > b THEN a ELSE b

\* sizes at or beyond 2^30 lie past every buffer of the model; they are
\* collapsed to Huge, which behaves like them in every slice and comparison
Huge == 1073741824

Raise(exc) == [st |-> "raise", exc |-> exc]
Hang == [st |-> "hang"]

\* the index Python uses for slice bound i on a sequence of length n
SliceIndex(i, n) == IF i < 0 THEN Max(i + n, 0) ELSE Min(i, n)

\* b[i:j]
Slice(b, i, j) ==
    LET lo == SliceIndex(i, Len(b))
        hi == SliceIndex(j, Len(b))
    IN  IF hi <= lo THEN << >> ELSE SubSeq(b, lo + 1, hi)

\* b[i:]
SliceFrom(b, i) == Slice(b, i, Len(b))

\* b.find(b'\0', start): 0-based index of the first NUL at or after start, -1 if none
Find(b, start) ==
    LET from == SliceIndex(start, Len(b))
        hits == {k \in from .. (Len(b) - 1) : b[k + 1] = 0}
    IN  IF hits = {} THEN -1 ELSE CHOOSE k \in hits : \A m \in hits : k <= m

IsCont(x) == x >= 128 /\ x <= 191

\* length of the UTF-8 sequence that starts at b[p] (1-based), 0 if none is valid
Utf8SeqLen(b, p) ==
    LET x == b[p]
        n == Len(b)
    IN  IF x < 128 THEN 1
        ELSE IF x >= 194 /\ x <= 223
            THEN IF p + 1 <= n /\ IsCont(b[p + 1]) THEN 2 ELSE 0
        ELSE IF x >= 224 /\ x <= 239
            THEN IF p + 2 <= n /\ IsCont(b[p + 1]) /\ IsCont(b[p + 2])
                    /\ (x = 224 => b[p + 1] >= 160)
                    /\ (x = 237 => b[p + 1] <= 159)
                 THEN 3 ELSE 0
        ELSE IF x >= 240 /\ x <= 244
            THEN IF p + 3 <= n /\ IsCont(b[p + 1]) /\ IsCont(b[p + 2]) /\ IsCont(b[p + 3])
                    /\ (x = 240 => b[p + 1] >= 144)
                    /\ (x = 244 => b[p + 1] <= 143)
                 THEN 4 ELSE 0
        ELSE 0

Utf8CodePoint(b, p, k) ==
    IF k = 1 THEN b[p]
    ELSE IF k = 2 THEN (b[p] - 192) * 64 + (b[p + 1] - 128)
    ELSE IF k = 3 THEN (b[p] - 224) * 4096 + (b[p + 1] - 128) * 64 + (b[p + 2] - 128)
    ELSE (b[p] - 240) * 262144 + (b[p + 1] - 128) * 4096
            + (b[p + 2] - 128) * 64 + (b[p + 3] - 128)

RECURSIVE Utf8DecodeFrom(_, _, _)
Utf8DecodeFrom(b, p, acc) ==
    IF p > Len(b) THEN [ok |-> TRUE, s |-> acc]
    ELSE LET k == Utf8SeqLen(b, p)
         IN  IF k = 0 THEN [ok |-> FALSE, s |-> << >>]
             ELSE Utf8DecodeFrom(b, p + k, Append(acc, Utf8CodePoint(b, p, k)))

\* bytes.decode('utf-8'): [ok, s]; ok = FALSE stands for UnicodeDecodeError
Utf8Decode(b) == Utf8DecodeFrom(b, 1, << >>)

Utf8EncodeChar(c) ==
    IF c < 128 THEN <<c>>
    ELSE IF c < 2048 THEN <<192 + (c \div 64), 128 + (c % 64)>>
    ELSE IF c < 65536
        THEN <<224 + (c \div 4096), 128 + ((c \div 64) % 64), 128 + (c % 64)>>
    ELSE <<240 + (c \div 262144), 128 + ((c \div 4096) % 64),
           128 + ((c \div 64) % 64), 128 + (c % 64)>>

RECURSIVE Utf8EncodeFrom(_, _, _)
Utf8EncodeFrom(s, p, acc) ==
    IF p > Len(s) THEN [ok |-> TRUE, b |-> acc]
    ELSE IF s[p] >= 55296 /\ s[p] <= 57343 THEN [ok |-> FALSE, b |-> << >>]
    ELSE Utf8EncodeFrom(s, p + 1, acc \o Utf8EncodeChar(s[p]))

\* str.encode('utf-8'): [ok, b]; ok = FALSE stands for UnicodeEncodeError
Utf8Encode(s) == Utf8EncodeFrom(s, 1, << >>)

----------------------------------------------------------------------------
(* Python values *)

PyNone == [t |-> "None"]
PyStr(s) == [t |-> "str", s |-> s]
PyBool(b) == [t |-> "bool", b |-> b]
PyInt(neg, mag) == [t |-> "int", neg |-> neg, mag |-> mag]
PyFloat(bits) == [t |-> "float", bits |-> bits]
PyBytes(b) == [t |-> "bytes", b |-> b]
PyList(items) == [t |-> "list", items |-> items]
NdArray(dtype, items) == [t |-> "ndarray", dtype |-> dtype, items |-> items]
PyTuple(items) == [t |-> "tuple", items |-> items]
PyDict(items) == [t |-> "dict", items |-> items]

----------------------------------------------------------------------------
(* The struct module *)

RECURSIVE StripZeros(_)
\* magnitude bytes without the high-order zero bytes
StripZeros(b) ==
    IF b = << >> THEN << >>
    ELSE IF b[Len(b)] = 0 THEN StripZeros(SubSeq(b, 1, Len(b) - 1))
    ELSE b

PadZeros(b, w) == [i \in 1 .. w |-> IF i <= Len(b) THEN b[i] ELSE 0]

RECURSIVE AddOne(_, _)
\* b + 1 modulo 256^Len(b), from byte p on
AddOne(b, p) ==
    IF p > Len(b) THEN << >>
    ELSE IF b[p] = 255 THEN <<0>> \o AddOne(b, p + 1)
    ELSE <<b[p] + 1>> \o SubSeq(b, p + 1, Len(b))

\* two's complement negation at the width of b
Negate(b) == AddOne([i \in 1 .. Len(b) |-> 255 - b[i]], 1)

\* the int a little-endian two's complement field holds
SignedValue(b) ==
    IF b[Len(b)] >= 128 THEN PyInt(TRUE, StripZeros(Negate(b)))
    ELSE PyInt(FALSE, StripZeros(b))

\* the range check of an unsigned field of w bytes, applied to a signed one
FitsSigned_unsigned(v, w) == Len(v.mag) <= w

\* -256^w/2 <= v < 256^w/2
FitsSigned(v, w) ==
    \/ Len(v.mag) < w
    \/ /\ Len(v.mag) = w
       /\ \/ v.mag[w] < 128
          \/ /\ v.neg
             /\ v.mag[w] = 128
             /\ \A i \in 1 .. (w - 1) : v.mag[i] = 0

\* struct.unpack('<I', b)[0]: [ok, v]; ok = FALSE stands for struct.error
unpack_I(b) ==
    IF Len(b) # 4 THEN [ok |-> FALSE, v |-> 0]
    ELSE [ok |-> TRUE,
          v |-> IF b[4] >= 64 THEN Huge
                ELSE b[1] + 256 * b[2] + 65536 * b[3] + 16777216 * b[4]]

\* struct.pack('<I', n) for a length n
pack_I(n) ==
    <<n % 256, (n \div 256) % 256, (n \div 65536) % 256, (n \div 16777216) % 256>>

\* struct.unpack('<i', b)[0] and struct.unpack('<q', b)[0], w = 4 or 8
unpack_int(b, w) ==
    IF Len(b) # w THEN [ok |-> FALSE, v |-> PyNone]
    ELSE [ok |-> TRUE, v |-> SignedValue(b)]

\* struct.unpack('<d', b)[0]
unpack_d(b) ==
    IF Len(b) # 8 THEN [ok |-> FALSE, v |-> PyNone]
    ELSE [ok |-> TRUE, v |-> PyFloat(b)]

\* the int a value stands for where struct asks for an integer (bool is an int)
AsInt(value) ==
    IF value.t = "bool" THEN PyInt(FALSE, IF value.b THEN <<1>> ELSE << >>)
    ELSE value

\* struct.pack('<i', value) and struct.pack('<q', value), w = 4 or 8
pack_int(value, w) ==
    IF value.t \notin {"int", "bool"} THEN [ok |-> FALSE, b |-> << >>]
    ELSE LET v == AsInt(value)
         IN  IF ~FitsSigned(v, w) THEN [ok |-> FALSE, b |-> << >>]
             ELSE [ok |-> TRUE,
                   b |-> IF v.neg THEN Negate(PadZeros(v.mag, w))
                         ELSE PadZeros(v.mag, w)]

Pow2(k) == IF k = 0 THEN 1 ELSE IF k = 1 THEN 2 ELSE IF k = 2 THEN 4
    ELSE IF k = 3 THEN 8 ELSE IF k = 4 THEN 16 ELSE IF k = 5 THEN 32
    ELSE IF k = 6 THEN 64 ELSE 128

\* bit j (0-based, little-endian) of a magnitude
BitAt(mag, j) ==
    IF j < 0 \/ j >= 8 * Len(mag) THEN 0
    ELSE (mag[(j \div 8) + 1] \div Pow2(j % 8)) % 2

\* index of the highest set bit of a non-zero magnitude
TopBit(mag) ==
    8 * (Len(mag) - 1)
        + (CHOOSE k \in 0 .. 7 : Pow2(k) <= mag[Len(mag)]
                                   /\ (k = 7 \/ mag[Len(mag)] < Pow2(k + 1)))

RECURSIVE IncBits(_, _)
\* a little-endian bit sequence plus one, from bit p on; all ones wraps to zero
IncBits(f, p) ==
    IF p > Len(f) THEN << >>
    ELSE IF f[p] = 1 THEN <<0>> \o IncBits(f, p + 1)
    ELSE <<1>> \o SubSeq(f, p + 1, Len(f))

BytesOfBits(bits) ==
    [i \in 1 .. 8 |->
        bits[8 * i - 7] + 2 * bits[8 * i - 6] + 4 * bits[8 * i - 5] + 8 * bits[8 * i - 4]
        + 16 * bits[8 * i - 3] + 32 * bits[8 * i - 2] + 64 * bits[8 * i - 1] + 128 * bits[8 * i]]

\* float(v) for an int v, as IEEE-754 binary64, round to nearest even:
\* [ok, b]; ok = FALSE stands for OverflowError
IntToDouble(v) ==
    IF v.mag = << >> THEN [ok |-> TRUE, b |-> <<0, 0, 0, 0, 0, 0, 0, 0>>]
    ELSE LET k == TopBit(v.mag)
             shift == k - 52
             frac == [j \in 1 .. 52 |-> BitAt(v.mag, j - 1 + shift)]
             roundUp == /\ shift > 0
                        /\ BitAt(v.mag, shift - 1) = 1
                        /\ \/ \E j \in 0 .. (shift - 2) : BitAt(v.mag, j) = 1
                           \/ BitAt(v.mag, shift) = 1
             carry == roundUp /\ \A j \in 1 .. 52 : frac[j] = 1
             frac2 == IF roundUp THEN IncBits(frac, 1) ELSE frac
             e == 1023 + k + (IF carry THEN 1 ELSE 0)
             ebits == [j \in 1 .. 11 |->
                          IF j <= 7 THEN (e \div Pow2(j - 1)) % 2
                          ELSE (e \div (128 * Pow2(j - 8))) % 2]
         IN  IF e >= 2047 THEN [ok |-> FALSE, b |-> << >>]
             ELSE [ok |-> TRUE,
                   b |-> BytesOfBits(frac2 \o ebits \o <<IF v.neg THEN 1 ELSE 0>>)]

\* a binary32 value widened to binary64 (exact): the 4 bytes to the 8 bytes
FloatToDouble(b) ==
    LET frac == <<b[1], b[2], b[3] % 128>>
        e4 == (b[3] \div 128) + 2 * (b[4] % 128)
        nz == StripZeros(frac)
        k == IF nz = << >> THEN 0 ELSE TopBit(nz)
        e == IF e4 = 255 THEN 2047
             ELSE IF e4 > 0 THEN e4 + 896
             ELSE IF nz = << >> THEN 0
             ELSE 874 + k
        frac8 == [j \in 1 .. 52 |->
                     IF e4 > 0 THEN BitAt(frac, j - 30)
                     ELSE IF nz = << >> THEN 0
                     ELSE BitAt(frac, j - 1 - (52 - k))]
        ebits == [j \in 1 .. 11 |->
                     IF j <= 7 THEN (e \div Pow2(j - 1)) % 2
                     ELSE (e \div (128 * Pow2(j - 8))) % 2]
    IN  BytesOfBits(frac8 \o ebits \o <<b[4] \div 128>>)

\* struct.pack('<d', value)
pack_d(value) ==
    IF value.t = "float" THEN [ok |-> TRUE, b |-> value.bits]
    ELSE IF value.t \in {"int", "bool"} THEN IntToDouble(AsInt(value))
    ELSE [ok |-> FALSE, b |-> << >>]

----------------------------------------------------------------------------
(* Strings of the source *)

\* the typecode characters, as str
tc_o == <<111>>
tc_s == <<115>>
tc_c == <<99>>
tc_b == <<98>>
tc_i == <<105>>
tc_q == <<113>>
tc_d == <<100>>
tc_C == <<67>>
tc_I == <<73>>
tc_Q == <<81>>
tc_D == <<68>>
tc_S == <<83>>
tc_O == <<79>>

\* "x in s" for two str: a substring test, which the empty str passes
IsSubstr(x, s) ==
    \E i \in 1 .. (Len(s) + 1) :
        i + Len(x) - 1 <= Len(s) /\ SubSeq(s, i, i + Len(x) - 1) = x

\* typecode in 'CIQD'
InCIQD(typecode) == IsSubstr(typecode, tc_C \o tc_I \o tc_Q \o tc_D)

\* typecode in 'iqd'
Iniqd(typecode) == IsSubstr(typecode, tc_i \o tc_q \o tc_d)

\* the type names of the registry
N_GwyContainer == <<71, 119, 121, 67, 111, 110, 116, 97, 105, 110, 101, 114>>
N_GwyDataField == <<71, 119, 121, 68, 97, 116, 97, 70, 105, 101, 108, 100>>
N_GwySurface == <<71, 119, 121, 83, 117, 114, 102, 97, 99, 101>>
N_GwyBrick == <<71, 119, 121, 66, 114, 105, 99, 107>>
N_GwyGraphModel == <<71, 119, 121, 71, 114, 97, 112, 104, 77, 111, 100, 101, 108>>
N_GwyGraphCurveModel ==
    <<71, 119, 121, 71, 114, 97, 112, 104, 67, 117, 114, 118, 101, 77, 111, 100, 101, 108>>
N_GwySIUnit == <<71, 119, 121, 83, 73, 85, 110, 105, 116>>

\* the file magic b'GWYP'
Magic == <<71, 87, 89, 80>>

\* component names the constructors know
K_xres == <<120, 114, 101, 115>>
K_yres == <<121, 114, 101, 115>>
K_zres == <<122, 114, 101, 115>>
K_xreal == <<120, 114, 101, 97, 108>>
K_yreal == <<121, 114, 101, 97, 108>>
K_zreal == <<122, 114, 101, 97, 108>>
K_xoff == <<120, 111, 102, 102>>
K_yoff == <<121, 111, 102, 102>>
K_zoff == <<122, 111, 102, 102>>
K_x_min == <<120, 95, 109, 105, 110>>
K_y_min == <<121, 95, 109, 105, 110>>
K_x_max == <<120, 95, 109, 97, 120>>
K_y_max == <<121, 95, 109, 97, 120>>
K_x_min_set == <<120, 95, 109, 105, 110, 95, 115, 101, 116>>
K_y_min_set == <<121, 95, 109, 105, 110, 95, 115, 101, 116>>
K_x_max_set == <<120, 95, 109, 97, 120, 95, 115, 101, 116>>
K_y_max_set == <<121, 95, 109, 97, 120, 95, 115, 101, 116>>
K_x_unit == <<120, 95, 117, 110, 105, 116>>
K_y_unit == <<121, 95, 117, 110, 105, 116>>
K_title == <<116, 105, 116, 108, 101>>
K_top_label == <<116, 111, 112, 95, 108, 97, 98, 101, 108>>
K_bottom_label == <<98, 111, 116, 116, 111, 109, 95, 108, 97, 98, 101, 108>>
K_left_label == <<108, 101, 102, 116, 95, 108, 97, 98, 101, 108>>
K_right_label == <<114, 105, 103, 104, 116, 95, 108, 97, 98, 101, 108>>
K_curves == <<99, 117, 114, 118, 101, 115>>
K_point_type == <<112, 111, 105, 110, 116, 95, 116, 121, 112, 101>>
K_point_size == <<112, 111, 105, 110, 116, 95, 115, 105, 122, 101>>
K_line_type == <<108, 105, 110, 101, 95, 116, 121, 112, 101>>
K_line_size == <<108, 105, 110, 101, 95, 115, 105, 122, 101>>

----------------------------------------------------------------------------
(* OrderedDict and dict *)

\* an OrderedDict is a sequence of [k, v] with distinct keys, in insertion order
OD_keys(od) == {od[i].k : i \in 1 .. Len(od)}

OD_get(od, k) == od[CHOOSE i \in 1 .. Len(od) : od[i].k = k].v

\* od[k] = v: a key already present keeps its place
OD_set(od, k, v) ==
    IF k \in OD_keys(od)
    THEN [i \in 1 .. Len(od) |-> IF od[i].k = k THEN [k |-> k, v |-> v] ELSE od[i]]
    ELSE Append(od, [k |-> k, v |-> v])

RECURSIVE OD_del(_, _)
\* "if k in od: del od[k]"
OD_del(od, k) ==
    IF od = << >> THEN << >>
    ELSE IF od[1].k = k THEN Tail(od)
    ELSE <<od[1]>> \o OD_del(Tail(od), k)

RECURSIVE OD_update(_, _)
\* od.update(other)
OD_update(od, other) ==
    IF other = << >> THEN od
    ELSE OD_update(OD_set(od, other[1].k, other[1].v), Tail(other))

\* a dict is a function on its set of keys
EmptyDict == [x \in {} |-> << >>]

Dict_set(d, k, v) == [x \in (DOMAIN d) \cup {k} |-> IF x = k THEN v ELSE d[x]]

\* d.update(other)
Dict_update(d, other) ==
    [x \in (DOMAIN d) \cup (DOMAIN other) |-> IF x \in DOMAIN other THEN other[x] ELSE d[x]]

\* the dict {k: tc for k in keys}
Dict_const(keys, tc) == [x \in keys |-> tc]

----------------------------------------------------------------------------
(* GwyObject and the registered types, as the decoder constructs them *)

GwyObj(cls, name, items, typecodes) ==
    [t |-> "obj", cls |-> cls, name |-> name, items |-> items, typecodes |-> typecodes]

\* GwyObject(name, data, typecodes=typecodes)
GwyObject_init(name, data, typecodes) ==
    GwyObj("GwyObject", name, OD_update(<< >>, data), Dict_update(EmptyDict, typecodes))

\* GwyContainer(data=data, typecodes=typecodes)
GwyContainer_init(data, typecodes) ==
    GwyObj("GwyContainer", N_GwyContainer, OD_update(<< >>, data),
           Dict_update(EmptyDict, typecodes))

\* GwyDataField(data=data, typecodes=typecodes), data an OrderedDict
GwyDataField_init(data, typecodes) ==
    GwyObj("GwyDataField", N_GwyDataField, OD_update(<< >>, data),
           Dict_update(Dict_update(EmptyDict, typecodes),
                       Dict_update(Dict_const({K_xres, K_yres}, tc_i),
                                   Dict_const({K_xreal, K_yreal, K_xoff, K_yoff}, tc_d))))

\* GwySurface(data=data, typecodes=typecodes), data an OrderedDict
GwySurface_init(data, typecodes) ==
    GwyObj("GwySurface", N_GwySurface, OD_update(<< >>, data),
           Dict_update(EmptyDict, typecodes))

\* GwyBrick(data=data, typecodes=typecodes), data an OrderedDict
GwyBrick_init(data, typecodes) ==
    GwyObj("GwyBrick", N_GwyBrick, OD_update(<< >>, data),
           Dict_update(Dict_update(EmptyDict, typecodes),
                       Dict_update(Dict_const({K_xres, K_yres, K_zres}, tc_i),
                                   Dict_const({K_xreal, K_yreal, K_zreal,
                                               K_xoff, K_yoff, K_zoff}, tc_d))))

RECURSIVE OD_delAll(_, _)
\* the setters called with None, one after the other: each deletes its key if present
OD_delAll(od, keys) ==
    IF keys = << >> THEN od ELSE OD_delAll(OD_del(od, keys[1]), Tail(keys))

\* GwyGraphModel(data=data, typecodes=typecodes): data is never read
GwyGraphModel_init(data, typecodes) ==
    GwyObj("GwyGraphModel", N_GwyGraphModel,
           OD_delAll(<< >>, <<K_x_min, K_y_min, K_x_max, K_y_max,
                              K_x_min_set, K_y_min_set, K_x_max_set, K_y_max_set,
                              K_x_unit, K_y_unit>>),
           Dict_update(Dict_update(EmptyDict, typecodes),
               Dict_update(Dict_const({K_x_min, K_y_min, K_x_max, K_y_max}, tc_d),
               Dict_update(Dict_const({K_x_min_set, K_y_min_set,
                                       K_x_max_set, K_y_max_set}, tc_b),
               Dict_update(Dict_const({K_title, K_top_label, K_bottom_label,
                                       K_left_label, K_right_label}, tc_s),
                           Dict_const({K_curves}, tc_O))))))

\* GwyGraphCurveModel(data=data, typecodes=typecodes)
GwyGraphCurveModel_init(data, typecodes) ==
    GwyObj("GwyGraphCurveModel", N_GwyGraphCurveModel,
           OD_delAll(OD_update(<< >>, data),
                     <<K_point_type, K_point_size, K_line_type, K_line_size>>),
           Dict_update(Dict_update(EmptyDict, typecodes),
                       Dict_const({K_point_type, K_point_size,
                                   K_line_type, K_line_size}, tc_i)))

\* GwySIUnit(data=data, typecodes=typecodes), data an OrderedDict
GwySIUnit_init(data, typecodes) ==
    GwyObj("GwySIUnit", N_GwySIUnit, OD_update(<< >>, data),
           Dict_update(EmptyDict, typecodes))

\* the keys of _gwyddion_types
RegisteredNames ==
    {N_GwyContainer, N_GwyDataField, N_GwySurface, N_GwyBrick,
     N_GwyGraphModel, N_GwyGraphCurveModel, N_GwySIUnit}

\* try: _gwyddion_types[name](data=data, typecodes=typecodes)
\* except KeyError: GwyObject(name, data, typecodes=typecodes)
Construct(name, data, typecodes) ==
    IF name = N_GwyContainer THEN GwyContainer_init(data, typecodes)
    ELSE IF name = N_GwyDataField THEN GwyDataField_init(data, typecodes)
    ELSE IF name = N_GwySurface THEN GwySurface_init(data, typecodes)
    ELSE IF name = N_GwyBrick THEN GwyBrick_init(data, typecodes)
    ELSE IF name = N_GwyGraphModel THEN GwyGraphModel_init(data, typecodes)
    ELSE IF name = N_GwyGraphCurveModel THEN GwyGraphCurveModel_init(data, typecodes)
    ELSE IF name = N_GwySIUnit THEN GwySIUnit_init(data, typecodes)
    ELSE GwyObject_init(name, data, typecodes)

----------------------------------------------------------------------------
(* numpy, as far as the codec uses it *)

\* typelookup[typecode].itemsize; np.dtype('<S') is the zero-width bytes type
ItemSize(typecode) ==
    IF typecode = tc_C THEN 0 ELSE IF typecode = tc_I THEN 4 ELSE 8

DtypeName(typecode) ==
    IF typecode = tc_C THEN "S" ELSE IF typecode = tc_I THEN "i4"
    ELSE IF typecode = tc_Q THEN "i8" ELSE "f8"

\* one array element from its bytes
ItemValue(typecode, b) == IF typecode = tc_D THEN PyFloat(b) ELSE SignedValue(b)

\* np.fromstring(b, dtype=typelookup[typecode]): [ok, v]; ok = FALSE stands for
\* ValueError (zero-valued itemsize, or a size that is no multiple of the item size)
np_fromstring(b, typecode) ==
    LET w == ItemSize(typecode)
    IN  IF w = 0 THEN [ok |-> FALSE, v |-> PyNone]
        ELSE IF Len(b) % w # 0 THEN [ok |-> FALSE, v |-> PyNone]
        ELSE [ok |-> TRUE,
              v |-> NdArray(DtypeName(typecode),
                            [i \in 1 .. (Len(b) \div w) |->
                                ItemValue(typecode, SubSeq(b, (i - 1) * w + 1, i * w))])]

\* sums and products of sizes, collapsed to Huge beyond it
SatAdd(a, b) == IF a >= Huge - b THEN Huge ELSE a + b
SatMul(w, n) == IF w = 0 THEN 0 ELSE IF n >= Huge \div w THEN Huge ELSE w * n

----------------------------------------------------------------------------
(* The decoder *)

\* a local name for the result of a call: F of the value x
Bind(x, F(_)) == F(x)

CompOk(name, data, typecode, size) ==
    [st |-> "ok", name |-> name, data |-> data, typecode |-> typecode, size |-> size]

\* a decoder that skips a typecode it does not know
UnknownTypecode_skip(name, typecode, endpos) == CompOk(name, PyNone, typecode, endpos)

\* the last branch of component_from_buffer: "else: raise NotImplementedError"
UnknownTypecode(name, typecode, endpos) == Raise("NotImplementedError")

RECURSIVE frombuffer(_)
RECURSIVE component_from_buffer(_)
RECURSIVE decode_components(_, _, _, _)
RECURSIVE decode_S(_, _, _, _, _)
RECURSIVE decode_O(_, _, _, _)

\* the loop "for _ in range(numitems)" of typecode S, from position endpos;
\* left after MaxIter iterations with the outcome "unbounded"
decode_S(b, endpos, numitems, data, iter) ==
    IF numitems = 0 THEN [st |-> "ok", data |-> data, endpos |-> endpos]
    ELSE IF iter >= MaxIter THEN [st |-> "unbounded"]
    ELSE LET pos == endpos
             e == Find(b, pos)
             s == Utf8Decode(Slice(b, pos, e))
         IN  IF ~s.ok THEN Raise("UnicodeDecodeError")
             ELSE decode_S(b, e + 1, numitems - 1, Append(data, PyStr(s.s)), iter + 1)

\* the loop "for _ in range(numitems)" of typecode O, from position endpos
decode_O(b, endpos, numitems, data) ==
    IF numitems = 0 THEN [st |-> "ok", data |-> data, endpos |-> endpos]
    ELSE Bind(frombuffer(SliceFrom(b, endpos)), LAMBDA r :
             IF r.st # "ok" THEN r
             ELSE decode_O(b, SatAdd(endpos, r.size), numitems - 1, Append(data, r.obj)))

\* component_from_buffer(buf, return_size=True)
component_from_buffer(b) ==
    LET pos0 == Find(b, 0)
        name == Utf8Decode(Slice(b, 0, pos0))
        tcd == Utf8Decode(Slice(b, pos0 + 1, pos0 + 2))
        typecode == tcd.s
        pos == pos0 + 2
    IN  IF ~name.ok \/ ~tcd.ok THEN Raise("UnicodeDecodeError")
        ELSE IF typecode = tc_o THEN
            Bind(frombuffer(SliceFrom(b, pos)), LAMBDA r :
                IF r.st # "ok" THEN r
                ELSE CompOk(name.s, r.obj, typecode, SatAdd(pos, r.size)))
        ELSE IF typecode = tc_s THEN
            LET e == Find(b, pos)
                s == Utf8Decode(Slice(b, pos, e))
            IN  IF ~s.ok THEN Raise("UnicodeDecodeError")
                ELSE CompOk(name.s, PyStr(s.s), typecode, e + 1)
        ELSE IF typecode = tc_b THEN
            LET x == Slice(b, pos, pos + 1)
            IN  IF Len(x) # 1 THEN Raise("TypeError")
                ELSE CompOk(name.s, PyBool(x[1] # 0), typecode, pos + 1)
        ELSE IF typecode = tc_c THEN
            LET x == Slice(b, pos, pos + 1)
                s == Utf8Decode(x)
            IN  IF Len(x) # 1 THEN Raise("struct.error")
                ELSE IF ~s.ok THEN Raise("UnicodeDecodeError")
                ELSE CompOk(name.s, PyStr(s.s), typecode, pos + 1)
        ELSE IF typecode = tc_i THEN
            LET v == unpack_int(Slice(b, pos, pos + 4), 4)
            IN  IF ~v.ok THEN Raise("struct.error")
                ELSE CompOk(name.s, v.v, typecode, pos + 4)
        ELSE IF typecode = tc_q THEN
            LET v == unpack_int(Slice(b, pos, pos + 8), 8)
            IN  IF ~v.ok THEN Raise("struct.error")
                ELSE CompOk(name.s, v.v, typecode, pos + 8)
        ELSE IF typecode = tc_d THEN
            LET v == unpack_d(Slice(b, pos, pos + 8))
            IN  IF ~v.ok THEN Raise("struct.error")
                ELSE CompOk(name.s, v.v, typecode, pos + 8)
        ELSE IF InCIQD(typecode) THEN
            LET n == unpack_I(Slice(b, pos, pos + 4))
            IN  IF ~n.ok THEN Raise("struct.error")
                ELSE IF typecode \notin {tc_C, tc_I, tc_Q, tc_D} THEN Raise("KeyError")
                ELSE LET start == pos + 4
                         endpos == SatAdd(start, SatMul(ItemSize(typecode), n.v))
                         a == np_fromstring(Slice(b, start, endpos), typecode)
                     IN  IF ~a.ok THEN Raise("ValueError")
                         ELSE CompOk(name.s, a.v, typecode, endpos)
        ELSE IF typecode = tc_S THEN
            LET n == unpack_I(Slice(b, pos, pos + 4))
            IN  IF ~n.ok THEN Raise("struct.error")
                ELSE Bind(decode_S(b, pos + 4, n.v, << >>, 0), LAMBDA r :
                         IF r.st # "ok" THEN r
                         ELSE CompOk(name.s, PyList(r.data), typecode, r.endpos))
        ELSE IF typecode = tc_O THEN
            LET n == unpack_I(Slice(b, pos, pos + 4))
            IN  IF ~n.ok THEN Raise("struct.error")
                ELSE Bind(decode_O(b, pos + 4, n.v, << >>), LAMBDA r :
                         IF r.st # "ok" THEN r
                         ELSE CompOk(name.s, PyList(r.data), typecode, r.endpos))
        ELSE UnknownTypecode(name.s, typecode, pos)

\* the loop "while len(buf) > 0" of GwyObject.frombuffer; consumed is the sum of the
\* component sizes so far.  A component of size 0 leaves buf as it is, so that the
\* loop repeats the same iteration for ever: Hang
decode_components(b, data, typecodes, consumed) ==
    IF Len(b) = 0
    THEN [st |-> "ok", data |-> data, typecodes |-> typecodes, consumed |-> consumed]
    ELSE Bind(component_from_buffer(b), LAMBDA c :
             IF c.st # "ok" THEN c
             ELSE IF c.size = 0 THEN Hang
             ELSE decode_components(SliceFrom(b, c.size),
                                    OD_set(data, c.name, c.data),
                                    Dict_set(typecodes, c.name, c.typecode),
                                    SatAdd(consumed, c.size)))

\* GwyObject.frombuffer(buf, return_size=True); declared is the length field read,
\* consumed the sum of the sizes component_from_buffer reported
frombuffer(b) ==
    LET pos == Find(b, 0)
        name == Utf8Decode(Slice(b, 0, pos))
        size == unpack_I(Slice(b, pos + 1, pos + 5))
    IN  IF ~name.ok THEN Raise("UnicodeDecodeError")
        ELSE IF ~size.ok THEN Raise("struct.error")
        ELSE LET object_data == Slice(b, pos + 5, SatAdd(pos + 5, size.v))
             IN  Bind(decode_components(object_data, << >>, EmptyDict, 0), LAMBDA body :
                     IF body.st # "ok" THEN body
                     ELSE [st |-> "ok",
                           obj |-> Construct(name.s, body.data, body.typecodes),
                           size |-> SatAdd(Len(name.s) + 5, size.v),
                           declared |-> size.v,
                           consumed |-> body.consumed])

----------------------------------------------------------------------------
(* The encoder *)

\* "typecode is None"
NoTypecode == <<-1>>

\* a numpy scalar wrapping the Python value item() returns
NpScalar(item) == [t |-> "npscalar", item |-> item]

\* value < 2**31, the sign not taken off
Below2p31(v) == v.neg \/ Len(v.mag) < 4 \/ (Len(v.mag) = 4 /\ v.mag[4] < 128)

\* abs(value) < 2**31
AbsBelow2p31(v) == Len(v.mag) < 4 \/ (Len(v.mag) = 4 /\ v.mag[4] < 128)

\* guess_typecode taking every float array for D, whatever the width
guess_typecode_any_float(value0) ==
    LET value == IF value0.t = "npscalar" THEN value0.item ELSE value0
    IN  IF value.t = "obj" THEN [ok |-> TRUE, tc |-> tc_o]
        ELSE IF value.t = "str"
            THEN IF Len(value.s) = 1 THEN [ok |-> TRUE, tc |-> tc_c]
                 ELSE [ok |-> TRUE, tc |-> tc_s]
        ELSE IF value.t = "bool" THEN [ok |-> TRUE, tc |-> tc_b]
        ELSE IF value.t = "int"
            THEN IF AbsBelow2p31(value) THEN [ok |-> TRUE, tc |-> tc_i]
                 ELSE [ok |-> TRUE, tc |-> tc_q]
        ELSE IF value.t = "float" THEN [ok |-> TRUE, tc |-> tc_d]
        ELSE IF value.t = "ndarray"
            THEN IF value.dtype = "f8" THEN [ok |-> TRUE, tc |-> tc_D]
                 ELSE IF value.dtype = "i8" THEN [ok |-> TRUE, tc |-> tc_Q]
                 ELSE IF value.dtype = "i4" THEN [ok |-> TRUE, tc |-> tc_I]
                 ELSE IF value.dtype = "S" THEN [ok |-> TRUE, tc |-> tc_C]
                 ELSE IF value.dtype = "f4" THEN [ok |-> TRUE, tc |-> tc_D]
                 ELSE [ok |-> FALSE, tc |-> NoTypecode]
        ELSE IF value.t = "list" THEN [ok |-> TRUE, tc |-> tc_O]
        ELSE [ok |-> FALSE, tc |-> NoTypecode]

\* guess_typecode deciding on the array's length before its dtype
guess_typecode_by_length(value0) ==
    LET value == IF value0.t = "npscalar" THEN value0.item ELSE value0
    IN  IF value.t = "obj" THEN [ok |-> TRUE, tc |-> tc_o]
        ELSE IF value.t = "str"
            THEN IF Len(value.s) = 1 THEN [ok |-> TRUE, tc |-> tc_c]
                 ELSE [ok |-> TRUE, tc |-> tc_s]
        ELSE IF value.t = "bool" THEN [ok |-> TRUE, tc |-> tc_b]
        ELSE IF value.t = "int"
            THEN IF AbsBelow2p31(value) THEN [ok |-> TRUE, tc |-> tc_i]
                 ELSE [ok |-> TRUE, tc |-> tc_q]
        ELSE IF value.t = "float" THEN [ok |-> TRUE, tc |-> tc_d]
        ELSE IF value.t = "ndarray"
            THEN IF value.items = << >> THEN [ok |-> FALSE, tc |-> NoTypecode]
                 ELSE IF value.dtype = "f8" THEN [ok |-> TRUE, tc |-> tc_D]
                 ELSE IF value.dtype = "i8" THEN [ok |-> TRUE, tc |-> tc_Q]
                 ELSE IF value.dtype = "i4" THEN [ok |-> TRUE, tc |-> tc_I]
                 ELSE IF value.dtype = "S" THEN [ok |-> TRUE, tc |-> tc_C]
                 ELSE [ok |-> FALSE, tc |-> NoTypecode]
        ELSE IF value.t = "list" THEN [ok |-> TRUE, tc |-> tc_O]
        ELSE [ok |-> FALSE, tc |-> NoTypecode]

\* guess_typecode(value): [ok, tc]; ok = FALSE stands for NotImplementedError
guess_typecode(value0) ==
    LET value == IF value0.t = "npscalar" THEN value0.item ELSE value0
    IN  IF value.t = "obj" THEN [ok |-> TRUE, tc |-> tc_o]
        ELSE IF value.t = "str"
            THEN IF Len(value.s) = 1 THEN [ok |-> TRUE, tc |-> tc_c]
                 ELSE [ok |-> TRUE, tc |-> tc_s]
        ELSE IF value.t = "bool" THEN [ok |-> TRUE, tc |-> tc_b]
        ELSE IF value.t = "int"
            THEN IF AbsBelow2p31(value) THEN [ok |-> TRUE, tc |-> tc_i]
                 ELSE [ok |-> TRUE, tc |-> tc_q]
        ELSE IF value.t = "float" THEN [ok |-> TRUE, tc |-> tc_d]
        ELSE IF value.t = "ndarray"
            THEN IF value.dtype = "f8" THEN [ok |-> TRUE, tc |-> tc_D]
                 ELSE IF value.dtype = "i8" THEN [ok |-> TRUE, tc |-> tc_Q]
                 ELSE IF value.dtype = "i4" THEN [ok |-> TRUE, tc |-> tc_I]
                 ELSE IF value.dtype = "S" THEN [ok |-> TRUE, tc |-> tc_C]
                 ELSE [ok |-> FALSE, tc |-> NoTypecode]
        ELSE IF value.t = "list" THEN [ok |-> TRUE, tc |-> tc_O]
        ELSE [ok |-> FALSE, tc |-> NoTypecode]

Bytes(b) == [st |-> "ok", b |-> b]

\* the value of a magnitude of at most 3 bytes
SmallNat(mag) ==
    (IF Len(mag) >= 1 THEN mag[1] ELSE 0) + (IF Len(mag) >= 2 THEN 256 * mag[2] ELSE 0)
        + (IF Len(mag) >= 3 THEN 65536 * mag[3] ELSE 0)

\* chr(value).encode('utf-8')
ChrEncode(value) ==
    IF value.t \notin {"int", "bool"} THEN Raise("TypeError")
    ELSE LET v == AsInt(value)
         IN  IF (v.neg /\ v.mag # << >>) \/ Len(v.mag) > 3 \/ SmallNat(v.mag) >= 1114112
             THEN Raise("ValueError")
             ELSE LET e == Utf8Encode(<<SmallNat(v.mag)>>)
                  IN  IF e.ok THEN Bytes(e.b) ELSE Raise("UnicodeEncodeError")

\* value.encode('utf-8')
StrEncode(value) ==
    IF value.t # "str" THEN Raise("AttributeError")
    ELSE LET e == Utf8Encode(value.s)
         IN  IF e.ok THEN Bytes(e.b) ELSE Raise("UnicodeEncodeError")

\* struct.pack('<' + typecode, value) for typecode in 'iqd'
StructPack(typecode, value) ==
    LET p == IF typecode = tc_i THEN pack_int(value, 4)
             ELSE IF typecode = tc_q THEN pack_int(value, 8)
             ELSE IF typecode = tc_d THEN pack_d(value)
             ELSE [ok |-> FALSE, b |-> << >>]
    IN  IF p.ok THEN Bytes(p.b) ELSE Raise("struct.error")

\* one element of value.astype(typelookup[typecode]), as bytes
ItemBytes(dtype, typecode, item) ==
    IF typecode = tc_D
    THEN IF dtype = "f8" THEN item.bits
         ELSE IF dtype = "f4" THEN FloatToDouble(item.bits)
         ELSE IntToDouble(item).b
    ELSE LET w == ItemSize(typecode)
             wide == IF item.neg THEN Negate(PadZeros(item.mag, 8)) ELSE PadZeros(item.mag, 8)
         IN  SubSeq(wide, 1, w)

RECURSIVE ConcatAll(_)
ConcatAll(chunks) == IF chunks = << >> THEN << >> ELSE chunks[1] \o ConcatAll(Tail(chunks))

\* struct.pack('<I', len(value)) + value.astype(typelookup[typecode]) as bytes,
\* for the numeric dtypes
ArrayEncode(typecode, value) ==
    IF typecode \notin {tc_C, tc_I, tc_Q, tc_D} THEN Raise("KeyError")
    ELSE IF value.t # "ndarray" THEN Raise("AttributeError")
    ELSE IF typecode = tc_C /\ value.dtype = "S"
        THEN Bytes(pack_I(Len(value.items))
                   \o ConcatAll([i \in 1 .. Len(value.items) |-> value.items[i].b]))
    ELSE IF typecode = tc_C \/ value.dtype \notin {"i4", "i8", "f8", "f4"}
            \/ (value.dtype \in {"f8", "f4"} /\ typecode # tc_D)
        THEN [st |-> "unmodelled"]
    ELSE Bytes(pack_I(Len(value.items))
               \o ConcatAll([i \in 1 .. Len(value.items) |->
                                ItemBytes(value.dtype, typecode, value.items[i])]))

RECURSIVE serialize(_)
RECURSIVE serialize_component(_, _, _)
RECURSIVE serialize_items(_, _, _)
RECURSIVE serialize_list(_, _, _)

\* the comprehensions of typecodes S and O over value, from element p on
serialize_list(typecode, items, p) ==
    IF p > Len(items) THEN Bytes(<< >>)
    ELSE Bind(IF typecode = tc_S
                  THEN LET s == StrEncode(items[p])
                       IN  IF s.st = "ok" THEN Bytes(s.b \o <<0>>) ELSE s
              ELSE IF items[p].t = "obj" THEN serialize(items[p])
              ELSE Raise("AttributeError"), LAMBDA e :
             IF e.st # "ok" THEN e
             ELSE Bind(serialize_list(typecode, items, p + 1), LAMBDA rest :
                      IF rest.st # "ok" THEN rest ELSE Bytes(e.b \o rest.b)))

\* the elements "for s in value" yields: of a list or an array its items, of a
\* str its characters, of a GwyObject its keys
Elements(value) ==
    IF value.t \in {"list", "ndarray"} THEN value.items
    ELSE IF value.t = "obj" THEN [i \in 1 .. Len(value.items) |-> PyStr(value.items[i].k)]
    ELSE [i \in 1 .. Len(value.s) |-> PyStr(<<value.s[i]>>)]

\* serialize_component(name, value, typecode)
serialize_component(name, value, typecode0) ==
    LET g == IF typecode0 = NoTypecode THEN guess_typecode(value)
             ELSE [ok |-> TRUE, tc |-> typecode0]
        typecode == g.tc
        n == Utf8Encode(name)
        t == Utf8Encode(typecode)
    IN  Bind(
            IF typecode = tc_o
                THEN IF value.t = "obj" THEN serialize(value) ELSE Raise("AttributeError")
            ELSE IF typecode = tc_s
                THEN LET s == StrEncode(value)
                     IN  IF s.st = "ok" THEN Bytes(s.b \o <<0>>) ELSE s
            ELSE IF typecode = tc_c THEN StrEncode(value)
            ELSE IF typecode = tc_b THEN ChrEncode(value)
            ELSE IF Iniqd(typecode) THEN StructPack(typecode, value)
            ELSE IF InCIQD(typecode) THEN ArrayEncode(typecode, value)
            ELSE IF typecode \in {tc_S, tc_O}
                THEN IF value.t \notin {"list", "str", "ndarray", "obj"} THEN Raise("TypeError")
                     ELSE Bind(serialize_list(typecode, Elements(value), 1), LAMBDA r :
                              IF r.st # "ok" THEN r
                              ELSE Bytes(pack_I(Len(Elements(value))) \o r.b))
            ELSE Raise("NotImplementedError"), LAMBDA payload :
        IF ~g.ok THEN Raise("NotImplementedError")
        ELSE IF payload.st # "ok" THEN payload
        ELSE IF ~n.ok \/ ~t.ok THEN Raise("UnicodeEncodeError")
        ELSE Bytes(n.b \o <<0>> \o t.b \o payload.b))

\* the loop "for k in self.keys()" of GwyObject.serialize, from item p on
serialize_items(obj, p, acc) ==
    IF p > Len(obj.items) THEN Bytes(acc)
    ELSE LET k == obj.items[p].k
             typecode == IF k \in DOMAIN obj.typecodes THEN obj.typecodes[k] ELSE NoTypecode
         IN  Bind(serialize_component(k, obj.items[p].v, typecode), LAMBDA c :
                 IF c.st # "ok" THEN c ELSE serialize_items(obj, p + 1, acc \o c.b))

\* GwyObject.serialize with a length that counts the type name and itself too
serialize_whole_length(obj) ==
    LET n == Utf8Encode(obj.name)
    IN  Bind(serialize_items(obj, 1, << >>), LAMBDA body :
            IF body.st # "ok" THEN body
            ELSE IF ~n.ok THEN Raise("UnicodeEncodeError")
            ELSE Bytes(n.b \o <<0>> \o pack_I(Len(n.b) + 5 + Len(body.b)) \o body.b))

\* GwyObject.serialize(self)
serialize(obj) ==
    LET n == Utf8Encode(obj.name)
    IN  Bind(serialize_items(obj, 1, << >>), LAMBDA body :
            IF body.st # "ok" THEN body
            ELSE IF ~n.ok THEN Raise("UnicodeEncodeError")
            ELSE Bytes(n.b \o <<0>> \o pack_I(Len(body.b)) \o body.b))

----------------------------------------------------------------------------
(* The file entry points *)

\* _read_file with the assert statement compiled away (python -O)
read_file_O(data) ==
    [res |-> frombuffer(SliceFrom(data, 4)), called |-> TRUE]

\* GwyObject._read_file(f) on the content data: the outcome, and whether
\* frombuffer was called
read_file(data) ==
    IF Slice(data, 0, 4) = Magic
    THEN [res |-> frombuffer(SliceFrom(data, 4)), called |-> TRUE]
    ELSE [res |-> Raise("AssertionError"), called |-> FALSE]

\* GwyObject._write_file(f): what f holds afterwards, and the outcome of serialize
write_file(obj) ==
    Bind(serialize(obj), LAMBDA s :
        [file |-> IF s.st = "ok" THEN Magic \o s.b ELSE Magic, ser |-> s])

----------------------------------------------------------------------------
(* The inputs: encodings laid out as the format's table says, each with the *)
(* value it encodes                                                         *)

\* a name as str and as its UTF-8 bytes: a, e-acute, xres, point_type
Nm_a == [s |-> <<97>>, b |-> <<97>>]
Nm_e == [s |-> <<233>>, b |-> <<195, 169>>]
Nm_xres == [s |-> K_xres, b |-> K_xres]
Nm_point_type == [s |-> K_point_type, b |-> K_point_type]

\* type names: two that the registry does not know (Foo, e-acute), and its seven
TypeNames ==
    {[s |-> <<70, 111, 111>>, b |-> <<70, 111, 111>>], Nm_e}
        \cup {[s |-> n, b |-> n] : n \in RegisteredNames}

Sample(tc, v, b) == [tc |-> tc, v |-> v, b |-> b]

\* payloads of the scalar typecodes s c b i q d
ScalarSamples ==
    {Sample(tc_s, PyStr(<<97, 98>>), <<97, 98, 0>>),
     Sample(tc_s, PyStr(<<233>>), <<195, 169, 0>>),
     Sample(tc_c, PyStr(<<97>>), <<97>>),
     Sample(tc_b, PyBool(TRUE), <<1>>),
     Sample(tc_b, PyBool(FALSE), <<0>>),
     Sample(tc_i, PyInt(TRUE, <<1>>), <<255, 255, 255, 255>>),
     Sample(tc_i, PyInt(FALSE, <<255, 255, 255, 127>>), <<255, 255, 255, 127>>),
     Sample(tc_q, PyInt(FALSE, <<0, 0, 0, 128>>), <<0, 0, 0, 128, 0, 0, 0, 0>>),
     Sample(tc_q, PyInt(TRUE, <<0, 0, 0, 0, 0, 0, 0, 128>>), <<0, 0, 0, 0, 0, 0, 0, 128>>),
     Sample(tc_d, PyFloat(<<0, 0, 0, 0, 0, 0, 240, 63>>), <<0, 0, 0, 0, 0, 0, 240, 63>>)}

\* payloads of the array typecodes C I Q D S: a 4-byte count, then the elements
ArraySamples ==
    {Sample(tc_C, NdArray("S", <<PyBytes(<<97>>), PyBytes(<<98>>)>>), <<2, 0, 0, 0, 97, 98>>),
     Sample(tc_I, NdArray("i4", <<PyInt(TRUE, <<2>>)>>), <<1, 0, 0, 0, 254, 255, 255, 255>>),
     Sample(tc_Q, NdArray("i8", << >>), <<0, 0, 0, 0>>),
     Sample(tc_D, NdArray("f8", <<PyFloat(<<0, 0, 0, 0, 0, 0, 240, 63>>)>>),
            <<1, 0, 0, 0, 0, 0, 0, 0, 0, 0, 240, 63>>),
     Sample(tc_S, PyList(<<PyStr(<<97>>), PyStr(<< >>)>>), <<2, 0, 0, 0, 97, 0, 0>>)}

\* the components the caller writes: every payload under the name a, and the
\* scalar payloads under names that constructors of the registry treat specially
Components ==
    {[n |-> Nm_a, p |-> p] : p \in ScalarSamples \cup ArraySamples}
        \cup {[n |-> Nm_e, p |-> p] : p \in {q \in ScalarSamples : q.tc \in {tc_s, tc_i}}}
        \cup {[n |-> n, p |-> p] : n \in {Nm_xres, Nm_point_type},
                                   p \in {q \in ScalarSamples : q.tc # tc_b \/ q.b = <<1>>}}

\* the fewer type names and components the caller of SpecMal writes around a
\* damaged part: an unregistered ASCII name, e-acute, a registered name; a
\* boolean, a string and an array under the name a
MalTypeNames ==
    {[s |-> <<70, 111, 111>>, b |-> <<70, 111, 111>>], Nm_e,
     [s |-> N_GwyGraphModel, b |-> N_GwyGraphModel]}
MalComponents ==
    {[n |-> Nm_a, p |-> p] :
        p \in {q \in ScalarSamples \cup ArraySamples :
                  \/ q.tc = tc_b /\ q.b = <<1>>
                  \/ q.tc = tc_s /\ q.b = <<97, 98, 0>>
                  \/ q.tc = tc_I}}

\* the 4-byte little-endian length field of the format
WireLen(n) ==
    <<n % 256, (n \div 256) % 256, (n \div 65536) % 256, (n \div 16777216) % 256>>

\* an object on the wire: NUL-terminated type name, length field, component bytes
Frame(tn, body) == tn.b \o <<0>> \o WireLen(Len(body)) \o body

\* damaged last components: [fault, b]
Malformed ==
    {[fault |-> "badtc", b |-> <<97, 0>>],
     [fault |-> "badtc", b |-> <<97, 0, 120>>],
     [fault |-> "badtc", b |-> <<97, 0, 120, 1>>],
     [fault |-> "badtc", b |-> <<97, 0, 255>>],
     [fault |-> "badtc", b |-> <<97, 0, 0>>],
     [fault |-> "badtc", b |-> <<97, 0, 1, 0, 0, 0, 0>>],
     [fault |-> "nonul", b |-> <<97, 0, 115, 97, 98>>],
     [fault |-> "nonul", b |-> <<97, 0, 83, 1, 0, 0, 0, 97>>],
     [fault |-> "nonul", b |-> <<98, 88>>],
     [fault |-> "nonul", b |-> <<97>>],
     [fault |-> "overrun", b |-> <<97, 0, 105, 1, 0>>],
     [fault |-> "overrun", b |-> <<97, 0, 73, 2, 0, 0, 0, 1, 0, 0, 0>>],
     [fault |-> "overrun", b |-> <<97, 0, 68, 1, 0, 0, 0, 1, 0, 0, 0>>],
     [fault |-> "overrun", b |-> <<97, 0, 79, 1, 0, 0, 0>>]}

\* four bytes that are not the magic, and two shorter contents
BadMagics == {<<71, 87, 89, 81>>, <<103, 119, 121, 112>>, <<0, 71, 87, 89>>, <<71, 87, 89>>, << >>}

----------------------------------------------------------------------------
(* The calling program *)

NoObj == [t |-> "none"]
NoRes == [st |-> "none"]

\* an object under construction: what it encodes so far (items, typecodes), its
\* component bytes, the number of its components, the depth of the objects nested
\* in it, whether a damaged component closes it, and the damage
EmptyCur ==
    [items |-> << >>, typecodes |-> EmptyDict, b |-> << >>, n |-> 0, depth |-> 0,
     sealed |-> FALSE, fault |-> "none"]

Init ==
    /\ phase = "build"
    /\ cur = EmptyCur
    /\ done = NoObj
    /\ nodes = 0
    /\ fault = "none"
    /\ buf = << >>
    /\ res = NoRes
    /\ ser = NoRes
    /\ res2 = NoRes
    /\ file = << >>
    /\ called = FALSE
    /\ calls = << >>

CallVars == <<fault, buf, res, ser, res2, file, called, calls>>

\* cur with one more component: name n, typecode tc, value v, payload bytes pb
Extended(n, tc, v, pb, depth, flt) ==
    [cur EXCEPT !.items = Append(@, [k |-> n.s, v |-> v]),
                !.typecodes = Dict_set(@, n.s, tc),
                !.b = @ \o n.b \o <<0>> \o Utf8Encode(tc).b \o pb,
                !.n = @ + 1,
                !.depth = Max(@, depth),
                !.fault = IF flt = "none" THEN @ ELSE flt]

CanAdd(max) == phase = "build" /\ ~cur.sealed /\ nodes < max

\* the caller writes a scalar or array component
AddComponent(max, comps) ==
    /\ CanAdd(max)
    /\ \E c \in comps :
        /\ c.n.s \notin OD_keys(cur.items)
        /\ cur' = Extended(c.n, c.p.tc, c.p.v, c.p.b, 0, "none")
    /\ nodes' = nodes + 1
    /\ UNCHANGED <<phase, done>>
    /\ UNCHANGED CallVars

\* the caller writes the finished object as a component of typecode o
AddObject(max) ==
    /\ CanAdd(max)
    /\ done # NoObj
    /\ Nm_a.s \notin OD_keys(cur.items)
    /\ cur' = Extended(Nm_a, tc_o, done.obj, done.b, done.depth, done.fault)
    /\ done' = NoObj
    /\ nodes' = nodes + 1
    /\ UNCHANGED phase
    /\ UNCHANGED CallVars

\* the caller writes k copies of the finished object as a component of typecode O
AddObjectList(max) ==
    /\ CanAdd(max)
    /\ done # NoObj
    /\ Nm_a.s \notin OD_keys(cur.items)
    /\ \E k \in 0 .. MaxList :
        cur' = Extended(Nm_a, tc_O, PyList([i \in 1 .. k |-> done.obj]),
                        WireLen(k) \o ConcatAll([i \in 1 .. k |-> done.b]),
                        done.depth, IF k = 0 THEN "none" ELSE done.fault)
    /\ done' = NoObj
    /\ nodes' = nodes + 1
    /\ UNCHANGED phase
    /\ UNCHANGED CallVars

\* the caller frames the components written so far as an object named tn
Close(names) ==
    /\ phase = "build"
    /\ done = NoObj
    /\ cur.depth < MaxDepth
    /\ \E tn \in names :
        done' = [t |-> "wire",
                 obj |-> GwyObj("GwyObject", tn.s, cur.items, cur.typecodes),
                 b |-> Frame(tn, cur.b),
                 depth |-> cur.depth + 1,
                 fault |-> cur.fault]
    /\ cur' = EmptyCur
    /\ UNCHANGED <<phase, nodes>>
    /\ UNCHANGED CallVars

\* the components of a well-formed tree, up to max of them, taken from comps,
\* in objects named from names
Build(max, comps, names) ==
    \/ AddComponent(max, comps)
    \/ AddObject(max)
    \/ AddObjectList(max)
    \/ Close(names)

\* the encoding written so far is well formed
Sound == cur.fault = "none" /\ (done # NoObj => done.fault = "none")

\* a damaged component ends the object under construction
AddMalformed ==
    /\ phase = "build"
    /\ Sound
    /\ \E m \in Malformed :
        cur' = [cur EXCEPT !.b = @ \o m.b, !.n = @ + 1, !.sealed = TRUE, !.fault = m.fault]
    /\ UNCHANGED <<phase, done, nodes>>
    /\ UNCHANGED CallVars

\* an object whose length field is one less or one more than its component bytes
CloseWrongLength ==
    /\ phase = "build"
    /\ done = NoObj
    /\ cur.depth < MaxDepth
    /\ Sound
    /\ \E tn \in MalTypeNames, d \in {-1, 1} :
        /\ Len(cur.b) + d >= 0
        /\ done' = [t |-> "wire",
                    obj |-> GwyObj("GwyObject", tn.s, cur.items, cur.typecodes),
                    b |-> tn.b \o <<0>> \o WireLen(Len(cur.b) + d) \o cur.b,
                    depth |-> cur.depth + 1,
                    fault |-> "length"]
    /\ cur' = EmptyCur
    /\ UNCHANGED <<phase, nodes>>
    /\ UNCHANGED CallVars

\* an object of which only the type name is there, without its NUL
CloseBareName ==
    /\ phase = "build"
    /\ done = NoObj
    /\ cur = EmptyCur
    /\ \E tn \in MalTypeNames :
        done' = [t |-> "wire", obj |-> GwyObj("GwyObject", tn.s, << >>, EmptyDict),
                 b |-> tn.b, depth |-> 1, fault |-> "nonul"]
    /\ UNCHANGED <<phase, cur, nodes>>
    /\ UNCHANGED CallVars

Ready == phase = "build" /\ done # NoObj /\ cur = EmptyCur

\* GwyObject.frombuffer(buf, return_size=True) on the finished encoding
FromBuffer ==
    /\ Ready
    /\ buf' = done.b
    /\ res' = frombuffer(done.b)
    /\ fault' = done.fault
    /\ phase' = "decoded"
    /\ UNCHANGED <<cur, done, nodes, ser, res2, file, called, calls>>

\* component_from_buffer(buf, return_size=True) on a single component
ComponentFromBuffer ==
    /\ phase = "build"
    /\ done = NoObj
    /\ cur.n = 1
    /\ buf' = cur.b
    /\ res' = component_from_buffer(cur.b)
    /\ fault' = cur.fault
    /\ phase' = "component"
    /\ UNCHANGED <<cur, done, nodes, ser, res2, file, called, calls>>

\* obj.serialize() on the decoded object
Serialize ==
    /\ phase = "decoded"
    /\ res.st = "ok"
    /\ ser' = serialize(res.obj)
    /\ phase' = "serialized"
    /\ UNCHANGED <<cur, done, nodes, fault, buf, res, res2, file, called, calls>>

\* GwyObject.frombuffer on the bytes serialize returned
Reload ==
    /\ phase = "serialized"
    /\ ser.st = "ok"
    /\ res2' = frombuffer(ser.b)
    /\ phase' = "reloaded"
    /\ UNCHANGED <<cur, done, nodes, fault, buf, res, ser, file, called, calls>>

\* GwyObject.fromfile on a file that holds content; flt says how it is damaged
ReadFile(content, flt) ==
    /\ file' = content
    /\ buf' = SliceFrom(content, 4)
    /\ res' = read_file(content).res
    /\ called' = read_file(content).called
    /\ fault' = flt
    /\ phase' = "loaded"
    /\ UNCHANGED <<cur, done, nodes, ser, res2, calls>>

\* gwyfile.load of a file with the magic and the finished encoding
FromFile ==
    /\ Ready
    /\ ReadFile(Magic \o done.b, done.fault)

\* gwyfile.load of a file cut short: a strict prefix of a well-formed file
FromFilePrefix ==
    /\ Ready
    /\ done.fault = "none"
    /\ \E k \in 0 .. (Len(done.b) + 3) : ReadFile(SubSeq(Magic \o done.b, 1, k), "prefix")

\* gwyfile.load of a file that does not start with the magic
FromFileBadMagic ==
    /\ Ready
    /\ \E m \in BadMagics : ReadFile(m \o done.b, "magic")

\* obj.tofile(f) on the object a load returned
ToFile ==
    /\ phase = "loaded"
    /\ res.st = "ok"
    /\ file' = write_file(res.obj).file
    /\ ser' = write_file(res.obj).ser
    /\ phase' = "written"
    /\ UNCHANGED <<cur, done, nodes, fault, buf, res, res2, called, calls>>

\* values handed to guess_typecode: ints around 2^31, text of length 0, 1 and 2,
\* booleans, a float, numpy scalars, objects
GuessValues ==
    LET ints == {PyInt(FALSE, << >>), PyInt(TRUE, <<1>>),
                 PyInt(FALSE, <<255, 255, 255, 127>>), PyInt(TRUE, <<255, 255, 255, 127>>),
                 PyInt(FALSE, <<0, 0, 0, 128>>), PyInt(TRUE, <<0, 0, 0, 128>>),
                 PyInt(TRUE, <<1, 0, 0, 128>>), PyInt(FALSE, <<0, 0, 0, 0, 1>>)}
        strs == {PyStr(<< >>), PyStr(<<97>>), PyStr(<<233>>), PyStr(<<97, 98>>)}
        others == {PyBool(TRUE), PyBool(FALSE), PyFloat(<<0, 0, 0, 0, 0, 0, 240, 63>>)}
    IN  ints \cup strs \cup others
            \cup {NpScalar(v) : v \in {PyInt(TRUE, <<0, 0, 0, 128>>), PyStr(<<97>>),
                                       PyBool(TRUE), PyFloat(<<0, 0, 0, 0, 0, 0, 240, 63>>)}}
            \cup {GwyObj("GwyObject", <<70, 111, 111>>, << >>, EmptyDict),
                  GwyDataField_init(<< >>, EmptyDict)}

\* guess_typecode(value)
Guess ==
    /\ phase = "build"
    /\ cur = EmptyCur
    /\ done = NoObj
    /\ Len(calls) < MaxCalls
    /\ \E v \in GuessValues : calls' = Append(calls, [arg |-> v, out |-> guess_typecode(v)])
    /\ UNCHANGED <<phase, cur, done, nodes, fault, buf, res, ser, res2, file, called>>

\* well-formed encodings through the decoder, the encoder and the decoder again
Next ==
    \/ Build(MaxNodes, Components, TypeNames)
    \/ FromBuffer
    \/ ComponentFromBuffer
    \/ Serialize
    \/ Reload

Spec == Init /\ [][Next]_vars

\* damaged encodings and files through the decoder, and files written back
NextMal ==
    \/ Build(MaxNodesMal, MalComponents, MalTypeNames)
    \/ AddMalformed
    \/ CloseWrongLength
    \/ CloseBareName
    \/ FromBuffer
    \/ ComponentFromBuffer
    \/ FromFile
    \/ FromFilePrefix
    \/ FromFileBadMagic
    \/ ToFile

SpecMal == Init /\ [][NextMal]_vars

\* typecode inference on its own
NextGuess == Guess

SpecGuess == Init /\ [][NextGuess]_vars

\* arrays of every dtype the encoder may meet, of every length up to MaxArray
ArrayOf(dtype, n) ==
    NdArray(dtype, [i \in 1 .. n |->
                       IF dtype = "f8" THEN PyFloat(<<0, 0, 0, 0, 0, 0, 240, 63>>)
                       ELSE IF dtype = "f4" THEN PyFloat(<<0, 0, 128, 63>>)
                       ELSE IF dtype = "S" THEN PyBytes(<<97>>)
                       ELSE PyInt(FALSE, <<1>>)])
GuessArrays == {ArrayOf(d, n) : d \in {"f8", "f4", "i8", "i4", "S"}, n \in 0 .. MaxArray}

\* guess_typecode(value) on an array
GuessArray ==
    /\ phase = "build"
    /\ cur = EmptyCur
    /\ done = NoObj
    /\ Len(calls) < MaxCalls
    /\ \E v \in GuessArrays : calls' = Append(calls, [arg |-> v, out |-> guess_typecode(v)])
    /\ UNCHANGED <<phase, cur, done, nodes, fault, buf, res, ser, res2, file, called>>

\* typecode inference on arrays
NextGuessArray == GuessArray

SpecGuessArray == Init /\ [][NextGuessArray]_vars

----------------------------------------------------------------------------
(* The calling program of the encoder: one component is serialized, with or  *)
(* without a typecode, alone or as the only component of an object, and      *)
(* the bytes are decoded                                                     *)

\* ints on both sides of 2^31 and 2^63, each with the typecode and the payload
\* the format gives it (two's complement, little-endian), or no typecode
\* where 64 bits do not hold it
IntSamples ==
    {[v |-> PyInt(FALSE, << >>), tc |-> tc_i, b |-> <<0, 0, 0, 0>>],
     [v |-> PyInt(TRUE, <<1>>), tc |-> tc_i, b |-> <<255, 255, 255, 255>>],
     [v |-> PyInt(FALSE, <<57, 48>>), tc |-> tc_i, b |-> <<57, 48, 0, 0>>],
     [v |-> PyInt(FALSE, <<255, 255, 255, 127>>), tc |-> tc_i, b |-> <<255, 255, 255, 127>>],
     [v |-> PyInt(TRUE, <<255, 255, 255, 127>>), tc |-> tc_i, b |-> <<1, 0, 0, 128>>],
     [v |-> PyInt(FALSE, <<0, 0, 0, 128>>), tc |-> tc_q, b |-> <<0, 0, 0, 128, 0, 0, 0, 0>>],
     [v |-> PyInt(TRUE, <<0, 0, 0, 128>>), tc |-> tc_q,
      b |-> <<0, 0, 0, 128, 255, 255, 255, 255>>],
     [v |-> PyInt(TRUE, <<1, 0, 0, 128>>), tc |-> tc_q,
      b |-> <<255, 255, 255, 127, 255, 255, 255, 255>>],
     [v |-> PyInt(FALSE, <<255, 255, 255, 255>>), tc |-> tc_q,
      b |-> <<255, 255, 255, 255, 0, 0, 0, 0>>],
     [v |-> PyInt(FALSE, <<255, 255, 255, 255, 255, 255, 255, 127>>), tc |-> tc_q,
      b |-> <<255, 255, 255, 255, 255, 255, 255, 127>>],
     [v |-> PyInt(TRUE, <<0, 0, 0, 0, 0, 0, 0, 128>>), tc |-> tc_q,
      b |-> <<0, 0, 0, 0, 0, 0, 0, 128>>],
     [v |-> PyInt(FALSE, <<0, 0, 0, 0, 0, 0, 0, 128>>), tc |-> NoTypecode, b |-> << >>],
     [v |-> PyInt(TRUE, <<1, 0, 0, 0, 0, 0, 0, 128>>), tc |-> NoTypecode, b |-> << >>],
     [v |-> PyInt(FALSE, <<1, 0, 0, 0, 0, 0, 0, 0, 1>>), tc |-> NoTypecode, b |-> << >>]}

\* two objects to nest: one without components, one with the component a = True
Obj_empty == GwyObj("GwyObject", <<70, 111, 111>>, << >>, EmptyDict)
Obj_one ==
    GwyObj("GwyObject", <<70, 111, 111>>, <<[k |-> <<97>>, v |-> PyBool(TRUE)]>>,
           Dict_set(EmptyDict, <<97>>, tc_b))

\* values of the shapes the encoder knows, arrays apart
PlainValues ==
    {PyStr(<< >>), PyStr(<<97>>), PyStr(<<233>>), PyStr(<<97, 98>>),
     PyBool(TRUE), PyBool(FALSE), PyFloat(<<0, 0, 0, 0, 0, 0, 240, 63>>),
     Obj_empty, Obj_one,
     PyList(<< >>), PyList(<<PyStr(<<120>>), PyStr(<<121>>)>>),
     PyList(<<Obj_empty>>), PyList(<<Obj_one, Obj_empty>>)}
        \cup {s.v : s \in IntSamples}

\* arrays of the element types the encoder knows
ArrayValues ==
    {NdArray("i4", << >>), NdArray("i4", <<PyInt(TRUE, <<2>>)>>),
     NdArray("i8", <<PyInt(FALSE, <<0, 0, 0, 128>>)>>),
     NdArray("f8", <<PyFloat(<<0, 0, 0, 0, 0, 0, 240, 63>>)>>),
     NdArray("S", <<PyBytes(<<97>>), PyBytes(<<98>>)>>)}

\* values of no shape the encoder knows: None, a tuple, a dict, a list of ints,
\* a list of an object and an int, an array of 4-byte floats
UnsupportedValues ==
    {PyNone, PyTuple(<<PyStr(<<120>>)>>), PyDict(<<[k |-> <<97>>, v |-> PyBool(TRUE)]>>),
     PyList(<<PyInt(FALSE, <<1>>)>>),
     PyList(<<Obj_empty, PyInt(FALSE, <<1>>)>>),
     NdArray("f4", <<PyFloat(<<0, 0, 128, 63>>)>>)}

Typecodes == {tc_o, tc_s, tc_c, tc_b, tc_i, tc_q, tc_d, tc_C, tc_I, tc_Q, tc_D, tc_S, tc_O}

\* the typecodes the caller records for an array of a dtype
ArrayTypecodes(dtype) ==
    IF dtype = "S" THEN {tc_C}
    ELSE IF dtype = "f8" THEN {tc_D}
    ELSE {tc_I, tc_Q, tc_D}

\* the calls the caller makes: [name, value, typecode]
EncCalls ==
    {[name |-> n.s, value |-> v, typecode |-> NoTypecode] :
        n \in {Nm_a, Nm_e}, v \in PlainValues \cup ArrayValues \cup UnsupportedValues}
    \cup {[name |-> Nm_a.s, value |-> v, typecode |-> tc] : v \in PlainValues, tc \in Typecodes}
    \cup UNION {{[name |-> Nm_a.s, value |-> v, typecode |-> tc] : tc \in ArrayTypecodes(v.dtype)} :
                    v \in ArrayValues}

\* serialize_component(name, value, typecode)
SerializeComponent ==
    /\ phase = "build"
    /\ \E c \in EncCalls :
        /\ ser' = serialize_component(c.name, c.value, c.typecode)
        /\ calls' = <<[arg |-> c, out |-> "component"]>>
    /\ phase' = "encoded"
    /\ UNCHANGED <<cur, done, nodes, fault, buf, res, res2, file, called>>

\* GwyObject('Foo', {name: value}, typecodes).serialize(), the typecode recorded or not
SerializeHolder ==
    /\ phase = "build"
    /\ \E c \in EncCalls :
        /\ ser' = serialize(GwyObj("GwyObject", <<70, 111, 111>>,
                                    <<[k |-> c.name, v |-> c.value]>>,
                                    IF c.typecode = NoTypecode THEN EmptyDict
                                    ELSE Dict_set(EmptyDict, c.name, c.typecode)))
        /\ calls' = <<[arg |-> c, out |-> "object"]>>
    /\ phase' = "encoded"
    /\ UNCHANGED <<cur, done, nodes, fault, buf, res, res2, file, called>>

\* component_from_buffer, or GwyObject.frombuffer, on the bytes written
DecodeWritten ==
    /\ phase = "encoded"
    /\ ser.st = "ok"
    /\ buf' = ser.b
    /\ res' = IF calls[1].out = "component" THEN component_from_buffer(ser.b)
              ELSE frombuffer(ser.b)
    /\ phase' = "redecoded"
    /\ UNCHANGED <<cur, done, nodes, fault, ser, res2, file, called, calls>>

NextEnc == SerializeComponent \/ SerializeHolder \/ DecodeWritten

SpecEnc == Init /\ [][NextEnc]_vars

----------------------------------------------------------------------------
(* The calling program that changes a decoded object before saving it: the   *)
(* object is decoded, components are assigned and deleted through the        *)
(* mapping interface, and the object is serialized and decoded again         *)

\* the components of the objects decoded: an int, a string, a boolean, under a
\* and under xres, in an object of an unregistered type
MutTypeNames == {[s |-> <<70, 111, 111>>, b |-> <<70, 111, 111>>]}
MutComponents ==
    {[n |-> n, p |-> p] :
        n \in {Nm_a, Nm_xres},
        p \in {q \in ScalarSamples :
                  \/ q.tc = tc_i /\ q.b = <<255, 255, 255, 255>>
                  \/ q.tc = tc_s /\ q.b = <<97, 98, 0>>
                  \/ q.tc = tc_b /\ q.b = <<1>>}}

\* the values assigned: a string, a boolean, an int, a float
MutValues ==
    {PyStr(<<97, 98>>), PyBool(TRUE), PyInt(TRUE, <<1>>), PyFloat(<<0, 0, 0, 0, 0, 0, 240, 63>>)}

\* obj[k] = v: OrderedDict.__setitem__, which GwyObject does not override
SetItem(obj, k, v) == GwyObj(obj.cls, obj.name, OD_set(obj.items, k, v), obj.typecodes)

\* del obj[k]: OrderedDict.__delitem__, which GwyObject does not override
DelItem(obj, k) == GwyObj(obj.cls, obj.name, OD_del(obj.items, k), obj.typecodes)

\* the caller assigns a component of the decoded object
Assign ==
    /\ phase = "decoded"
    /\ res.st = "ok"
    /\ Len(calls) < MaxMut
    /\ \E k \in {Nm_a.s, Nm_xres.s}, v \in MutValues :
        /\ res' = [st |-> "ok", obj |-> SetItem(res.obj, k, v), size |-> res.size,
                   declared |-> res.declared, consumed |-> res.consumed]
        /\ calls' = Append(calls, [arg |-> [op |-> "set", k |-> k], out |-> v])
    /\ UNCHANGED <<phase, cur, done, nodes, fault, buf, ser, res2, file, called>>

\* the caller deletes a component of the decoded object
Delete ==
    /\ phase = "decoded"
    /\ res.st = "ok"
    /\ Len(calls) < MaxMut
    /\ \E k \in OD_keys(res.obj.items) :
        /\ res' = [st |-> "ok", obj |-> DelItem(res.obj, k), size |-> res.size,
                   declared |-> res.declared, consumed |-> res.consumed]
        /\ calls' = Append(calls, [arg |-> [op |-> "del", k |-> k], out |-> PyNone])
    /\ UNCHANGED <<phase, cur, done, nodes, fault, buf, ser, res2, file, called>>

NextMut ==
    \/ Build(MaxNodes, MutComponents, MutTypeNames)
    \/ FromBuffer
    \/ Assign
    \/ Delete
    \/ Serialize
    \/ Reload

SpecMut == Init /\ [][NextMut]_vars

\* objects of few type names and components, nested, through the decoder and
\* the encoder: the components of SpecMal, under the names a and xres
FrameComponents ==
    MalComponents \cup {[n |-> Nm_xres, p |-> c.p] : c \in MalComponents}
NextFrame ==
    \/ Build(MaxNodes, FrameComponents, MalTypeNames)
    \/ FromBuffer
    \/ Serialize

SpecFrame == Init /\ [][NextFrame]_vars

----------------------------------------------------------------------------
(* The calling program of GwyDataField: a field is made from a 2-D array or  *)
(* decoded, its data property and its components are assigned, its data     *)
(* property is read                                                          *)

K_data == <<100, 97, 116, 97>>

\* a 2-D array: the elements in row-major order, and the shape (rows, columns)
NdArray2(dtype, shape, items) ==
    [t |-> "ndarray", dtype |-> dtype, items |-> items, shape |-> shape]

\* an int n >= 0 as a Python int
NatInt(n) == PyInt(FALSE, IF n = 0 THEN << >> ELSE <<n>>)

\* new_data.flatten()
Flatten(a) == NdArray(a.dtype, a.items)

\* a.reshape((yres, xres)) of a 1-D array
Reshape(a, yres, xres) ==
    IF yres * xres = Len(a.items)
    THEN [st |-> "ok", v |-> NdArray2(a.dtype, <<yres, xres>>, a.items)]
    ELSE Raise("ValueError")

\* the setter of GwyDataField.data
GwyDataField_data_set(obj, new_data) ==
    GwyObj(obj.cls, obj.name,
           OD_set(OD_set(OD_set(obj.items, K_xres, NatInt(new_data.shape[2])),
                         K_yres, NatInt(new_data.shape[1])),
                  K_data, Flatten(new_data)),
           obj.typecodes)

\* the getter of GwyDataField.data
GwyDataField_data_get(obj) ==
    IF {K_xres, K_yres, K_data} \ OD_keys(obj.items) # {} THEN Raise("KeyError")
    ELSE Reshape(OD_get(obj.items, K_data),
                 SmallNat(OD_get(obj.items, K_yres).mag),
                 SmallNat(OD_get(obj.items, K_xres).mag))

\* GwyDataField(data), data a 2-D array, the other arguments at their defaults
GwyDataField_new(data) ==
    Bind(GwyDataField_data_set(
             GwyObj("GwyDataField", N_GwyDataField,
                    <<[k |-> K_xreal, v |-> PyFloat(<<0, 0, 0, 0, 0, 0, 240, 63>>)],
                      [k |-> K_yreal, v |-> PyFloat(<<0, 0, 0, 0, 0, 0, 240, 63>>)],
                      [k |-> K_xoff, v |-> NatInt(0)],
                      [k |-> K_yoff, v |-> NatInt(0)]>>, EmptyDict), data), LAMBDA o :
        GwyObj(o.cls, o.name, o.items,
               Dict_update(Dict_const({K_xres, K_yres}, tc_i),
                           Dict_const({K_xreal, K_yreal, K_xoff, K_yoff}, tc_d))))

\* element i of the arrays of the caller: 1.0 plus i units in the last place
Cell(i) == PyFloat(<<i, 0, 0, 0, 0, 0, 240, 63>>)

\* the 2-D arrays assigned: every shape up to MaxRes x MaxRes
FieldArrays ==
    {NdArray2("f8", <<h, w>>, [i \in 1 .. h * w |-> Cell(i)]) : h \in 1 .. MaxRes, w \in 1 .. MaxRes}

\* the fields on the wire: xres, yres under i and n doubles as data under D
FieldWire(xres, yres, n) ==
    Frame([s |-> N_GwyDataField, b |-> N_GwyDataField],
          K_xres \o <<0>> \o tc_i \o WireLen(xres)
              \o K_yres \o <<0>> \o tc_i \o WireLen(yres)
              \o K_data \o <<0>> \o tc_D \o WireLen(n)
              \o ConcatAll([i \in 1 .. n |-> Cell(i).bits]))
FieldWires ==
    {FieldWire(x, y, n) : x \in 1 .. MaxRes, y \in 1 .. MaxRes, n \in 0 .. MaxRes * MaxRes}

\* field = GwyDataField(array)
NewField ==
    /\ phase = "build"
    /\ cur = EmptyCur
    /\ done = NoObj
    /\ calls = << >>
    /\ \E a \in FieldArrays :
        /\ res' = [st |-> "ok", obj |-> GwyDataField_new(a)]
        /\ calls' = <<[arg |-> [op |-> "new", v |-> a], out |-> PyNone]>>
    /\ phase' = "field"
    /\ UNCHANGED <<cur, done, nodes, fault, buf, ser, res2, file, called>>

\* field = GwyObject.frombuffer(bytes of a GwyDataField)
DecodeField ==
    /\ phase = "build"
    /\ cur = EmptyCur
    /\ done = NoObj
    /\ calls = << >>
    /\ \E w \in FieldWires :
        /\ buf' = w
        /\ res' = frombuffer(w)
        /\ calls' = <<[arg |-> [op |-> "frombuffer", v |-> PyNone], out |-> PyNone]>>
    /\ phase' = "field"
    /\ UNCHANGED <<cur, done, nodes, fault, ser, res2, file, called>>

FieldOp == phase = "field" /\ res.st = "ok" /\ Len(calls) <= MaxFieldOps

\* field.data = array
SetData ==
    /\ FieldOp
    /\ \E a \in FieldArrays :
        /\ res' = [st |-> "ok", obj |-> GwyDataField_data_set(res.obj, a)]
        /\ calls' = Append(calls, [arg |-> [op |-> "setdata", v |-> a], out |-> PyNone])
    /\ UNCHANGED <<phase, cur, done, nodes, fault, buf, ser, res2, file, called>>

\* field['xres'] = n, field['yres'] = n
SetRes ==
    /\ FieldOp
    /\ \E k \in {K_xres, K_yres}, n \in 1 .. MaxRes + 1 :
        /\ res' = [st |-> "ok", obj |-> SetItem(res.obj, k, NatInt(n))]
        /\ calls' = Append(calls, [arg |-> [op |-> "setitem", v |-> PyNone], out |-> PyNone])
    /\ UNCHANGED <<phase, cur, done, nodes, fault, buf, ser, res2, file, called>>

\* field.data
GetData ==
    /\ FieldOp
    /\ calls' = Append(calls, [arg |-> [op |-> "getdata", v |-> PyNone],
                               out |-> GwyDataField_data_get(res.obj)])
    /\ UNCHANGED <<phase, cur, done, nodes, fault, buf, res, ser, res2, file, called>>

NextField == NewField \/ DecodeField \/ SetData \/ SetRes \/ GetData

SpecField == Init /\ [][NextField]_vars

----------------------------------------------------------------------------
(* The calling program of the unit properties of GwyBrick: a brick is        *)
(* decoded, its four unit properties are assigned and read                   *)

K_unitstr == <<117, 110, 105, 116, 115, 116, 114>>
K_si_unit_x == <<115, 105, 95, 117, 110, 105, 116, 95, 120>>
K_si_unit_y == <<115, 105, 95, 117, 110, 105, 116, 95, 121>>
K_si_unit_z == <<115, 105, 95, 117, 110, 105, 116, 95, 122>>
K_si_unit_w == <<115, 105, 95, 117, 110, 105, 116, 95, 119>>

\* GwySIUnit(unitstr=unitstr)
GwySIUnit_new(unitstr) ==
    GwyObj("GwySIUnit", N_GwySIUnit, <<[k |-> K_unitstr, v |-> unitstr]>>,
           Dict_set(EmptyDict, K_unitstr, tc_s))

\* self.get(key, None)
Get(obj, key) == IF key \in OD_keys(obj.items) THEN OD_get(obj.items, key) ELSE PyNone

\* the body the four unit setters share, on the key each of them names
si_unit_setter(obj, key, unit) ==
    IF unit = PyNone THEN DelItem(obj, key)
    ELSE IF unit.t = "str" THEN SetItem(obj, key, GwySIUnit_new(unit))
    ELSE SetItem(obj, key, unit)

\* the getters of GwyBrick.si_unit_x, si_unit_y, si_unit_z, si_unit_w
si_unit_x(obj) == Get(obj, K_si_unit_x)
si_unit_y(obj) == Get(obj, K_si_unit_x)
si_unit_z(obj) == Get(obj, K_si_unit_z)
si_unit_w(obj) == Get(obj, K_si_unit_w)

\* the four properties: the component each setter writes, what each getter returns
UnitProps == {"x", "y", "z", "w"}
UnitKey(p) ==
    IF p = "x" THEN K_si_unit_x ELSE IF p = "y" THEN K_si_unit_y
    ELSE IF p = "z" THEN K_si_unit_z ELSE K_si_unit_w
UnitGet(obj, p) ==
    IF p = "x" THEN si_unit_x(obj) ELSE IF p = "y" THEN si_unit_y(obj)
    ELSE IF p = "z" THEN si_unit_z(obj) ELSE si_unit_w(obj)

\* the units assigned: None, the strings 'm' and 's', a GwySIUnit
UnitValues == {PyNone, PyStr(<<109>>), PyStr(<<115>>), GwySIUnit_new(PyStr(<<65>>))}

\* brick = GwyObject.frombuffer(bytes of a GwyBrick without components)
DecodeBrick ==
    /\ phase = "build"
    /\ cur = EmptyCur
    /\ done = NoObj
    /\ calls = << >>
    /\ buf' = Frame([s |-> N_GwyBrick, b |-> N_GwyBrick], << >>)
    /\ res' = frombuffer(Frame([s |-> N_GwyBrick, b |-> N_GwyBrick], << >>))
    /\ phase' = "brick"
    /\ UNCHANGED <<cur, done, nodes, fault, ser, res2, file, called, calls>>

\* brick.si_unit_p = unit
SetUnit ==
    /\ phase = "brick"
    /\ res.st = "ok"
    /\ Len(calls) < MaxUnitOps
    /\ \E p \in UnitProps, u \in UnitValues :
        /\ res' = [st |-> "ok", obj |-> si_unit_setter(res.obj, UnitKey(p), u)]
        /\ calls' = Append(calls, [arg |-> [op |-> "set", p |-> p, u |-> u], out |-> PyNone])
    /\ UNCHANGED <<phase, cur, done, nodes, fault, buf, ser, res2, file, called>>

\* brick.si_unit_p
GetUnit ==
    /\ phase = "brick"
    /\ res.st = "ok"
    /\ Len(calls) < MaxUnitOps
    /\ \E p \in UnitProps :
        calls' = Append(calls, [arg |-> [op |-> "get", p |-> p, u |-> PyNone],
                                out |-> UnitGet(res.obj, p)])
    /\ UNCHANGED <<phase, cur, done, nodes, fault, buf, res, ser, res2, file, called>>

NextBrick == DecodeBrick \/ SetUnit \/ GetUnit

SpecBrick == Init /\ [][NextBrick]_vars

----------------------------------------------------------------------------
(* Comparing trees *)

RECURSIVE SameValue(_, _)
\* the same value; for objects the same type name, the same component names in
\* the same order, each with the same recorded typecode and the same value
SameValue(a, b) ==
    IF a.t = "obj" /\ b.t = "obj"
    THEN /\ a.name = b.name
         /\ Len(a.items) = Len(b.items)
         /\ \A i \in 1 .. Len(a.items) :
               /\ a.items[i].k = b.items[i].k
               /\ a.items[i].k \in DOMAIN a.typecodes
               /\ b.items[i].k \in DOMAIN b.typecodes
               /\ a.typecodes[a.items[i].k] = b.typecodes[b.items[i].k]
               /\ SameValue(a.items[i].v, b.items[i].v)
    ELSE IF a.t = "list" /\ b.t = "list"
    THEN /\ Len(a.items) = Len(b.items)
         /\ \A i \in 1 .. Len(a.items) : SameValue(a.items[i], b.items[i])
    ELSE a = b

RECURSIVE NoTypecodeAdded(_)
\* typecodes are recorded for the components of the object only, at every level
NoTypecodeAdded(a) ==
    IF a.t = "obj"
    THEN /\ DOMAIN a.typecodes = OD_keys(a.items)
         /\ \A i \in 1 .. Len(a.items) : NoTypecodeAdded(a.items[i].v)
    ELSE IF a.t = "list"
    THEN \A i \in 1 .. Len(a.items) : NoTypecodeAdded(a.items[i])
    ELSE TRUE

\* a decoder call has been made on what the caller built
Decoded == phase \in {"decoded", "loaded"}

----------------------------------------------------------------------------
(* The claims *)

\* C1: every tree that frombuffer returns serializes without raising, and
\* decoding the bytes again gives a tree with the same type name, component
\* names and order, typecodes and values.
C1_RoundTrip ==
    /\ phase \in {"serialized", "reloaded"} => ser.st = "ok"
    /\ phase = "reloaded" => res2.st = "ok" /\ SameValue(res2.obj, res.obj)

\* C2: for every well-formed object encoding b, frombuffer(b).serialize() returns
\* exactly b, whether the type names in it are registered or not.
C2_RegistryKeepsBytes ==
    phase = "serialized" => ser.st = "ok" /\ ser.b = buf

\* C3: the object frombuffer returns for a well-formed encoding has exactly the
\* components read from the body, in the order read, with the values and the
\* typecodes read, and no other typecode, under registered and unregistered
\* type names alike.
C3_ComponentsVerbatim ==
    phase = "decoded" /\ res.st = "ok"
        => SameValue(res.obj, done.obj) /\ NoTypecodeAdded(res.obj)

\* C4: an object is returned only if the sizes reported for its components sum to
\* the length field of the object; a buffer whose length field or element count
\* is wrong makes frombuffer raise.
C4_LengthAccounting ==
    Decoded /\ fault \in {"none", "length", "overrun"} /\ res.st = "ok"
        => res.consumed = res.declared

\* C5: on a well-formed encoding every decode step reports the number of bytes
\* the encoding occupies: component_from_buffer the length of the component,
\* frombuffer the length of the object, never more than len(buf).
C5_ExactSizes ==
    phase \in {"decoded", "component"} /\ fault = "none"
        => res.st = "ok" /\ res.size = Len(buf)

\* C6: decoding a strict prefix of a well-formed file raises an error.
C6_TruncatedRejected ==
    phase = "loaded" /\ fault = "prefix" => res.st = "raise"

\* C7: decoding a buffer in which a type name, a component name, an s payload or
\* an S element has no terminating NUL raises an error.
C7_MissingNulRejected ==
    phase \in {"decoded", "loaded", "component"} /\ fault = "nonul" => res.st = "raise"

\* C8: a file that does not start with GWYP is rejected with an error before the
\* object decoder is called, and a file written by tofile is GWYP followed by
\* serialize() of the root object.
C8_MagicChecked ==
    /\ phase = "loaded" /\ Slice(file, 0, 4) # Magic
        => res.st = "raise" /\ ~called
    /\ phase = "written" /\ ser.st = "ok"
        => file = Magic \o serialize(res.obj).b

\* C8 witness: a file of at least four bytes with a wrong magic has been loaded
C8_Witness ==
    /\ phase = "loaded"
    /\ fault = "magic"
    /\ Len(file) > 4
    /\ Slice(file, 0, 4) # Magic
    /\ res.st = "raise"

\* C9: a component whose typecode byte is none of o s c b i q d C I Q D S O, or
\* is absent, makes component_from_buffer raise, and no enclosing frombuffer
\* returns an object.
C9_UnknownTypecodeFatal ==
    phase \in {"decoded", "loaded", "component"} /\ fault = "badtc" => res.st = "raise"

\* C9 witness: the component with the unknown typecode lies in a nested object
C9_Witness ==
    /\ phase = "decoded"
    /\ fault = "badtc"
    /\ done.depth = 2
    /\ res = Raise("NotImplementedError")

\* the ints of GuessValues below 2^31 in magnitude, and the others
IntsBelow2p31 ==
    {PyInt(FALSE, << >>), PyInt(TRUE, <<1>>),
     PyInt(FALSE, <<255, 255, 255, 127>>), PyInt(TRUE, <<255, 255, 255, 127>>)}
IntsFrom2p31 ==
    {PyInt(FALSE, <<0, 0, 0, 128>>), PyInt(TRUE, <<0, 0, 0, 128>>),
     PyInt(TRUE, <<1, 0, 0, 128>>), PyInt(FALSE, <<0, 0, 0, 0, 1>>)}

\* the typecode the stated precedence gives a scalar value
StatedTypecode(v) ==
    IF v.t = "obj" THEN tc_o
    ELSE IF v.t = "str" /\ Len(v.s) = 1 THEN tc_c
    ELSE IF v.t = "str" /\ Len(v.s) > 1 THEN tc_s
    ELSE IF v.t = "bool" THEN tc_b
    ELSE IF v \in IntsBelow2p31 THEN tc_i
    ELSE IF v \in IntsFrom2p31 THEN tc_q
    ELSE IF v.t = "float" THEN tc_d
    ELSE NoTypecode

\* C10: guess_typecode gives o for an object, c for text of length 1, s for longer
\* text, b for a boolean, i for an int below 2^31 in magnitude, q for any other
\* int, d for a float; and the same value gets the same typecode at every call.
C10_ScalarInference ==
    /\ \A i \in 1 .. Len(calls) :
          LET v == IF calls[i].arg.t = "npscalar" THEN calls[i].arg.item ELSE calls[i].arg
          IN  StatedTypecode(v) # NoTypecode
                  => calls[i].out = [ok |-> TRUE, tc |-> StatedTypecode(v)]
    /\ \A i, j \in 1 .. Len(calls) :
          calls[i].arg = calls[j].arg => calls[i].out = calls[j].out

\* C10 witness: -2^31 was given q, another value was guessed, and -2^31 again
C10_Witness ==
    /\ Len(calls) = 3
    /\ calls[1].arg = PyInt(TRUE, <<0, 0, 0, 128>>)
    /\ calls[1].out.tc = tc_q
    /\ calls[2].arg = PyBool(TRUE)
    /\ calls[2].out.tc = tc_b
    /\ calls[3].arg = calls[1].arg

\* the call of the encoder's caller, and the value it passes
EncArg == calls[1].arg
AllOfKind(items, kind) == \A i \in 1 .. Len(items) : items[i].t = kind

\* C11: without a recorded typecode, serialize_component writes a non-empty list
\* of objects as typecode O, a 4-byte count and the objects, and a non-empty list
\* of strings as typecode S, a 4-byte count and the NUL-terminated strings.
C11_SequenceInference ==
    phase = "encoded" /\ calls[1].out = "component" /\ EncArg.typecode = NoTypecode
        /\ EncArg.value.t = "list" /\ EncArg.value.items # << >>
        => LET items == EncArg.value.items
               head == Utf8Encode(EncArg.name).b \o <<0>>
           IN  /\ AllOfKind(items, "obj")
                    => ser = Bytes(head \o tc_O \o pack_I(Len(items))
                                   \o ConcatAll([i \in 1 .. Len(items) |-> serialize(items[i]).b]))
               /\ AllOfKind(items, "str")
                    => ser = Bytes(head \o tc_S \o pack_I(Len(items))
                                   \o ConcatAll([i \in 1 .. Len(items) |->
                                                    Utf8Encode(items[i].s).b \o <<0>>]))

\* C12: guess_typecode gives an array of 8-byte floats D, of 4-byte ints I, of
\* 8-byte ints Q, of byte strings C, whatever its length, 0 included; an array
\* of 4-byte floats gets no typecode.
C12_ArrayInference ==
    \A i \in 1 .. Len(calls) :
        calls[i].arg.t = "ndarray"
            => calls[i].out =
                   IF calls[i].arg.dtype = "f8" THEN [ok |-> TRUE, tc |-> tc_D]
                   ELSE IF calls[i].arg.dtype = "i4" THEN [ok |-> TRUE, tc |-> tc_I]
                   ELSE IF calls[i].arg.dtype = "i8" THEN [ok |-> TRUE, tc |-> tc_Q]
                   ELSE IF calls[i].arg.dtype = "S" THEN [ok |-> TRUE, tc |-> tc_C]
                   ELSE [ok |-> FALSE, tc |-> NoTypecode]

\* C12 witness: an empty and a two-element array of 8-byte floats were given D,
\* and an array of 4-byte floats was given no typecode
C12_Witness ==
    /\ Len(calls) = 3
    /\ calls[1].arg = ArrayOf("f8", 0) /\ calls[1].out.tc = tc_D
    /\ calls[2].arg = ArrayOf("f8", 2) /\ calls[2].out.tc = tc_D
    /\ calls[3].arg = ArrayOf("f4", 1) /\ ~calls[3].out.ok

\* C12 as stated: D is the typecode of an array of 4-byte floats
C12_FloatWidth4 ==
    \A i \in 1 .. Len(calls) :
        calls[i].arg.t = "ndarray" /\ calls[i].arg.dtype \in {"f4", "i4", "i8", "S"}
            => calls[i].out =
                   IF calls[i].arg.dtype = "f4" THEN [ok |-> TRUE, tc |-> tc_D]
                   ELSE IF calls[i].arg.dtype = "i4" THEN [ok |-> TRUE, tc |-> tc_I]
                   ELSE IF calls[i].arg.dtype = "i8" THEN [ok |-> TRUE, tc |-> tc_Q]
                   ELSE [ok |-> TRUE, tc |-> tc_C]

\* C13: a value that is no GwyObject, text, bool, int, float, list of objects
\* or array of a known dtype, and has no recorded typecode, makes
\* serialize_component and the serialize of the object holding it raise; no
\* bytes are returned.
C13_UnsupportedRaises ==
    phase = "encoded" /\ EncArg.typecode = NoTypecode /\ EncArg.value \in UnsupportedValues
        => ser.st = "raise"

\* C13 witness: an object holding a list of an object and an int was serialized
C13_Witness ==
    /\ phase = "encoded"
    /\ calls[1].out = "object"
    /\ EncArg.typecode = NoTypecode
    /\ EncArg.value = PyList(<<Obj_empty, PyInt(FALSE, <<1>>)>>)
    /\ ser = Raise("AttributeError")

\* the typecode serialize_component writes for its arguments
UsedTypecode ==
    IF EncArg.typecode = NoTypecode THEN guess_typecode(EncArg.value).tc ELSE EncArg.typecode

\* C14: component_from_buffer on the bytes B that serialize_component returned
\* reports the size len(B) and returns the name and the typecode written; so a c
\* payload is 1 byte, a b payload 1 byte, a C array a count and count bytes.
C14_EncoderMirrorsDecoder ==
    phase = "redecoded" /\ calls[1].out = "component"
        => /\ res.st = "ok"
           /\ res.size = Len(ser.b)
           /\ res.name = EncArg.name
           /\ res.typecode = UsedTypecode

\* the ints of IntSamples that 32 signed bits hold, -2^31 among them
Int32Samples ==
    {s.v : s \in {x \in IntSamples : x.tc = tc_i}} \cup {PyInt(TRUE, <<0, 0, 0, 128>>)}

\* C20: an int without a recorded typecode is written in two's complement,
\* little-endian, on 4 bytes under i when its magnitude is below 2^31 and on 8
\* bytes under q otherwise, and decoded to the same int; an int outside
\* -2^63 .. 2^63 - 1, and an int that 32 signed bits do not hold under a
\* recorded i, makes serialize_component raise.
C20_IntsExact ==
    phase \in {"encoded", "redecoded"} /\ calls[1].out = "component" /\ EncArg.value.t = "int"
        => /\ \A s \in IntSamples :
                 EncArg.value = s.v /\ EncArg.typecode = NoTypecode
                     => IF s.tc = NoTypecode THEN ser.st = "raise"
                        ELSE /\ ser = Bytes(Utf8Encode(EncArg.name).b \o <<0>> \o s.tc \o s.b)
                             /\ phase = "redecoded"
                                    => /\ res.st = "ok"
                                       /\ res.data = s.v
                                       /\ res.typecode = s.tc
           /\ EncArg.typecode = tc_i /\ EncArg.value \notin Int32Samples => ser.st = "raise"
           /\ EncArg.typecode = tc_i /\ EncArg.value \in Int32Samples
                  => ser.st = "ok" /\ Len(ser.b) = Len(Utf8Encode(EncArg.name).b) + 6

\* C20 witness: -2^31 - 1, with no recorded typecode, was written on 8 bytes
\* under q and read back
C20_WitnessRoundTrip ==
    /\ phase = "redecoded"
    /\ EncArg.typecode = NoTypecode
    /\ EncArg.value = PyInt(TRUE, <<1, 0, 0, 128>>)
    /\ ser.b = <<97, 0, 113, 255, 255, 255, 127, 255, 255, 255, 255>>
    /\ res.data = PyInt(TRUE, <<1, 0, 0, 128>>)

\* component i of obj as serialize_component writes it, and its typecode
CompBytes(obj, i) ==
    serialize_component(obj.items[i].k, obj.items[i].v,
                        IF obj.items[i].k \in DOMAIN obj.typecodes
                        THEN obj.typecodes[obj.items[i].k] ELSE NoTypecode)
CompTypecode(obj, i) ==
    IF obj.items[i].k \in DOMAIN obj.typecodes THEN obj.typecodes[obj.items[i].k]
    ELSE guess_typecode(obj.items[i].v).tc

RECURSIVE Framed(_, _)
\* b is the type name of obj, a NUL, a 4-byte little-endian count of the bytes
\* after it, and the components of obj in order; and so is every object nested
\* in obj as an o value or as an element of an O list
Framed(b, obj) ==
    LET n == Utf8Encode(obj.name).b
        p == Len(n) + 2
    IN  /\ Len(b) >= Len(n) + 5
        /\ SubSeq(b, 1, Len(n)) = n
        /\ b[Len(n) + 1] = 0
        /\ b[p] + 256 * b[p + 1] + 65536 * b[p + 2] + 16777216 * b[p + 3] = Len(b) - (p + 3)
        /\ \A i \in 1 .. Len(obj.items) : CompBytes(obj, i).st = "ok"
        /\ SubSeq(b, p + 4, Len(b))
               = ConcatAll([i \in 1 .. Len(obj.items) |-> CompBytes(obj, i).b])
        /\ \A i \in 1 .. Len(obj.items) :
               LET v == obj.items[i].v
                   h == Len(Utf8Encode(obj.items[i].k).b) + 2
               IN  /\ CompTypecode(obj, i) = tc_o
                        => Framed(SubSeq(CompBytes(obj, i).b, h + 1, Len(CompBytes(obj, i).b)), v)
                   /\ CompTypecode(obj, i) = tc_O /\ v.t = "list"
                        => /\ \A j \in 1 .. Len(v.items) :
                                 Framed(serialize(v.items[j]).b, v.items[j])
                           /\ SubSeq(CompBytes(obj, i).b, h + 5, Len(CompBytes(obj, i).b))
                                  = ConcatAll([j \in 1 .. Len(v.items) |->
                                                  serialize(v.items[j]).b])

\* C15: what serialize() returns is the type name in UTF-8, one NUL, a 4-byte
\* little-endian length L and L bytes, the object's serialized components in
\* insertion order; so it is for every o value and every element of an O list.
C15_ObjectFraming ==
    phase = "serialized" /\ ser.st = "ok" => Framed(ser.b, res.obj)

\* C15 witness: an object with two components, one of them a list of objects
\* under O, was serialized
C15_Witness ==
    /\ phase = "serialized"
    /\ ser.st = "ok"
    /\ Len(res.obj.items) = 2
    /\ \E i \in 1 .. 2 : /\ CompTypecode(res.obj, i) = tc_O
                          /\ res.obj.items[i].v.t = "list"
                          /\ res.obj.items[i].v.items # << >>

\* C17: on every buffer frombuffer returns an object or raises, and a component
\* that component_from_buffer returns has a size of at least 1.
C17_DecodingTerminates ==
    /\ phase \in {"decoded", "loaded"} => res.st \in {"ok", "raise"}
    /\ phase = "component" /\ res.st = "ok" => res.size >= 1

\* C18: after components of a decoded object were assigned or deleted,
\* serialize() returns, and decoding what it returns gives the object's
\* component names in their order, each with its current value.
C18_MutationSafe ==
    calls # << >>
        => /\ phase \in {"serialized", "reloaded"} => ser.st = "ok"
           /\ phase = "reloaded"
                  => /\ res2.st = "ok"
                     /\ Len(res2.obj.items) = Len(res.obj.items)
                     /\ \A i \in 1 .. Len(res.obj.items) :
                            /\ res2.obj.items[i].k = res.obj.items[i].k
                            /\ SameValue(res2.obj.items[i].v, res.obj.items[i].v)

\* C16: in every state of a GwyDataField, xres * yres is the number of
\* elements of its data component; after field.data = a, a of shape (h, w),
\* yres is h and xres is w, and field.data read next is a.
C16_FieldDimensions ==
    phase = "field" /\ res.st = "ok"
        => /\ {K_xres, K_yres, K_data} \subseteq OD_keys(res.obj.items)
           /\ SmallNat(OD_get(res.obj.items, K_xres).mag)
                  * SmallNat(OD_get(res.obj.items, K_yres).mag)
                  = Len(OD_get(res.obj.items, K_data).items)
           /\ calls[Len(calls)].arg.op = "setdata"
                  => /\ OD_get(res.obj.items, K_yres) = NatInt(calls[Len(calls)].arg.v.shape[1])
                     /\ OD_get(res.obj.items, K_xres) = NatInt(calls[Len(calls)].arg.v.shape[2])
           /\ \A i \in 2 .. Len(calls) :
                  calls[i].arg.op = "getdata" /\ calls[i - 1].arg.op = "setdata"
                      => calls[i].out = [st |-> "ok", v |-> calls[i - 1].arg.v]

\* the unit last assigned to property p among the first n calls, as the
\* property holds it: None when none was, a GwySIUnit around a string
LastUnit(p, n) ==
    LET sets == {j \in 1 .. n : calls[j].arg.op = "set" /\ calls[j].arg.p = p}
    IN  IF sets = {} THEN PyNone
        ELSE LET u == calls[CHOOSE j \in sets : \A k \in sets : k <= j].arg.u
             IN  IF u # PyNone /\ u.t = "str" THEN GwySIUnit_new(u) ELSE u

\* C19: reading si_unit_x, si_unit_y, si_unit_z or si_unit_w of a GwyBrick
\* returns the unit last assigned to that property, None when None or nothing
\* was; and each property's component holds what was assigned to it.
C19_UnitAccessors ==
    phase = "brick" /\ res.st = "ok"
        => /\ \A i \in 1 .. Len(calls) :
                  calls[i].arg.op = "get" => calls[i].out = LastUnit(calls[i].arg.p, i - 1)
           /\ \A p \in UnitProps : Get(res.obj, UnitKey(p)) = LastUnit(p, Len(calls))

\* the model left no loop or conversion unfollowed
Followed ==
    /\ res.st \notin {"unbounded", "unmodelled"}
    /\ ser.st \notin {"unbounded", "unmodelled"}
    /\ res2.st \notin {"unbounded", "unmodelled"}
    /\ fault = "none" /\ res.st = "ok" => res.size < Huge

====
